---- MODULE Spec2Model ----
(***************************************************************************)
(* A model of SimPEG/EM/FDEM/FieldsFDEM.py: the frequency-domain field     *)
(* containers Fields_e, Fields_b, Fields_j and Fields_h with the shared    *)
(* base class Fields.                                                      *)
(*                                                                         *)
(* Numbers are exact complex rationals <<re, im, den>> (den > 0, lowest    *)
(* terms).  A frequency f is represented by the integer k with             *)
(* f = k / (2 pi) Hz, so that omega(f) = 2 pi f = k is again rational.     *)
(* A 2-D array is a sequence of rows, a 1-D array a sequence of numbers.   *)
(* What an accessor produces is an outcome record                          *)
(*   [kind, val, msg, calls, sol]                                          *)
(* kind : "matrix" | "vector" | "Zero" | the name of the exception raised  *)
(* val  : the array ( <<>> for Zero and for exceptions )                   *)
(* msg  : the exception's message, as the sequence of its parts            *)
(* calls: the variant's accessors evaluated, in evaluation order           *)
(* sol  : the contents of the array passed as `solution` after the call    *)
(***************************************************************************)
EXTENDS Integers, Sequences, FiniteSets, TLC

\* ------------------------------------------------------------------------
\* complex rational arithmetic (Python complex / numpy complex128, exact)
\* ------------------------------------------------------------------------

Abs(n) == IF n < 0 THEN -n ELSE n

RECURSIVE Gcd(_, _)
Gcd(a, b) == IF b = 0 THEN a ELSE Gcd(b, a % b)

CNorm(re, im, den) ==
    LET s == IF den < 0 THEN -1 ELSE 1
        g == Gcd(Gcd(Abs(re), Abs(im)), Abs(den))
    IN  << (s * re) \div g, (s * im) \div g, (s * den) \div g >>

CInt(n)    == << n, 0, 1 >>
CZero      == CInt(0)
COne       == CInt(1)
Imag       == << 0, 1, 1 >>

\* (integers, den = 1, stay in lowest terms without a gcd)
CAdd(x, y) ==
    IF x[3] = 1 /\ y[3] = 1 THEN << x[1] + y[1], x[2] + y[2], 1 >>
    ELSE CNorm(x[1] * y[3] + y[1] * x[3], x[2] * y[3] + y[2] * x[3], x[3] * y[3])
CNeg(x)    == << -x[1], -x[2], x[3] >>
CSub(x, y) == CAdd(x, CNeg(y))
CMul(x, y) ==
    IF x[3] = 1 /\ y[3] = 1
    THEN << x[1] * y[1] - x[2] * y[2], x[1] * y[2] + x[2] * y[1], 1 >>
    ELSE CNorm(x[1] * y[1] - x[2] * y[2], x[1] * y[2] + x[2] * y[1], x[3] * y[3])
\* 1./x for x # 0; the caller raises ZeroDivisionError for x = 0
CInv(x)    == CNorm(x[3] * x[1], -(x[3] * x[2]), x[1] * x[1] + x[2] * x[2])

\* ------------------------------------------------------------------------
\* arrays
\* ------------------------------------------------------------------------

NRows(A)   == Len(A)
NCols(A)   == Len(A[1])
Column(A, c) == [r \in 1..NRows(A) |-> A[r][c]]
Columns(A, ind) == [r \in 1..NRows(A) |-> [k \in 1..Len(ind) |-> A[r][ind[k]]]]
SetColumn(A, c, v) == [r \in 1..NRows(A) |-> [A[r] EXCEPT ![c] = v[r]]]
Transpose(A) == [c \in 1..NCols(A) |-> [r \in 1..NRows(A) |-> A[r][c]]]
Zeros(r, c)  == [i \in 1..r |-> [k \in 1..c |-> CZero]]
ZeroVec(n)   == [i \in 1..n |-> CZero]
AsColumn(v)  == [r \in 1..Len(v) |-> << v[r] >>]

RECURSIVE CSum(_)
CSum(s) == IF s = << >> THEN CZero ELSE CAdd(s[1], CSum(Tail(s)))

VecAdd(u, v)   == [r \in 1..Len(u) |-> CAdd(u[r], v[r])]
VecSub(u, v)   == [r \in 1..Len(u) |-> CSub(u[r], v[r])]
VecScale(k, v) == [r \in 1..Len(v) |-> CMul(k, v[r])]
VecNeg(v)      == [r \in 1..Len(v) |-> CNeg(v[r])]
\* the unconjugated bilinear pairing sum_r u[r] * v[r]
Dot(u, v)      == CSum([r \in 1..Len(u) |-> CMul(u[r], v[r])])
MatVec(A, v)   == [r \in 1..NRows(A) |-> Dot(A[r], v)]
MatMul(A, B)   == [r \in 1..NRows(A) |-> [c \in 1..NCols(B) |-> Dot(A[r], Column(B, c))]]
MatAdd(A, B)   == [r \in 1..NRows(A) |-> [c \in 1..NCols(A) |-> CAdd(A[r][c], B[r][c])]]
Diag(v)        == [r \in 1..Len(v) |-> [c \in 1..Len(v) |-> IF r = c THEN v[r] ELSE CZero]]

\* ------------------------------------------------------------------------
\* outcomes: what a call returns or raises
\* ------------------------------------------------------------------------

Matrix(val, calls, sol) == [kind |-> "matrix", val |-> val, msg |-> << >>, calls |-> calls, sol |-> sol]
Vector(val, calls)      == [kind |-> "vector", val |-> val, msg |-> << >>, calls |-> calls, sol |-> << >>]
\* SimPEG.Utils.Zero(): the additive identity, not an array
Zero(calls)             == [kind |-> "Zero", val |-> << >>, msg |-> << >>, calls |-> calls, sol |-> << >>]
Raise(exc, msg, calls, sol) == [kind |-> exc, val |-> << >>, msg |-> msg, calls |-> calls, sol |-> sol]

IsValue(o)  == o.kind \in {"matrix", "vector", "Zero"}
Raised(o)   == ~IsValue(o)

\* a value handed over by a collaborator (a source, the problem): no accessor ran
Given(kind, val) == [kind |-> kind, val |-> val, msg |-> << >>, calls |-> << >>, sol |-> << >>]
GivenVec(v)      == Given("vector", v)
GivenZero        == Given("Zero", << >>)

\* x + y for 1-D operands, Zero() being the identity of +; arrays of different
\* length do not broadcast
ValAdd(x, y) ==
    IF Raised(x) THEN x
    ELSE IF Raised(y) THEN [y EXCEPT !.calls = x.calls \o y.calls]
    ELSE IF x.kind = "Zero" THEN [y EXCEPT !.calls = x.calls \o y.calls]
    ELSE IF y.kind = "Zero" THEN [x EXCEPT !.calls = x.calls \o y.calls]
    ELSE IF Len(x.val) # Len(y.val)
         THEN Raise("ValueError", << "operands could not be broadcast together" >>,
                    x.calls \o y.calls, << >>)
    ELSE Vector(VecAdd(x.val, y.val), x.calls \o y.calls)

\* k * x for a scalar k
ValScale(k, x) ==
    IF x.kind = "vector" THEN [x EXCEPT !.val = VecScale(k, x.val)] ELSE x

ValNeg(x) == ValScale(CInt(-1), x)

\* A * x for a sparse matrix A: Zero() absorbs, a vector of the wrong length is a
\* dimension mismatch
ValMatVec(A, x) ==
    IF x.kind # "vector" THEN x
    ELSE IF NCols(A) # Len(x.val)
         THEN Raise("ValueError", << "dimension mismatch" >>, x.calls, << >>)
    ELSE [x EXCEPT !.val = MatVec(A, x.val)]

\* Identity() * v
IdentityMul(v) == v

\* ------------------------------------------------------------------------
\* collaborators: the problem (mesh operators, mass matrices) and the sources
\* ------------------------------------------------------------------------

\* SimPEG.EM.Utils.omega: 2 pi f, with f given as k / (2 pi)
omega(freq) == CInt(freq)

\* 1./(1j*omega(src.freq)); Python raises ZeroDivisionError when the product is 0
IOmega(src)     == CMul(Imag, omega(src.freq))
IOmegaIsZero(src) == IOmega(src) = CZero
InvIOmega(src)  == CInv(IOmega(src))

\* prob.MeSigmaIDeriv(u), prob.MfRhoDeriv(u): the derivative of the mass matrix
\* times u with respect to the model, linear in u; u arrives as an n x 1 array
MassDeriv(K, u) == MatMul(Diag(Column(u, 1)), K)

\* src.eval(prob) -> (S_m, S_e); in the E-B formulation S_m lives on faces and
\* S_e on edges, in the H-J formulation S_m on edges and S_e on faces
SrcEval(src, prob) ==
    IF prob.formulation = "EB" THEN [S_m |-> src.sF, S_e |-> src.sE]
    ELSE [S_m |-> src.sE, S_e |-> src.sF]

\* the action of one source-term derivative D (a matrix, or "Zero" for a source
\* term that does not depend on the model) on v
SrcTermDeriv(D, v, adjoint) ==
    IF D = << >> THEN GivenZero
    ELSE LET A == IF adjoint THEN Transpose(D) ELSE D
         IN  IF NCols(A) # Len(v)
             THEN Given("ValueError", << >>)
             ELSE GivenVec(MatVec(A, v))

\* src.evalDeriv(prob, v, adjoint) -> (S_mDeriv, S_eDeriv)
SrcEvalDeriv(src, prob, v, adjoint) ==
    IF prob.formulation = "EB"
    THEN [S_mDeriv |-> SrcTermDeriv(src.dsF, v, adjoint),
          S_eDeriv |-> SrcTermDeriv(src.dsE, v, adjoint)]
    ELSE [S_mDeriv |-> SrcTermDeriv(src.dsE, v, adjoint),
          S_eDeriv |-> SrcTermDeriv(src.dsF, v, adjoint)]

\* src.ePrimary(prob), src.bPrimary(prob), src.hPrimary(prob), src.jPrimary(prob)
SrcPrimary(src, prob, name) ==
    CASE name = "e" -> src.pE
      [] name = "b" -> src.pF
      [] name = "h" -> src.pE
      [] name = "j" -> src.pF

\* ------------------------------------------------------------------------
\* numpy statements shared by the accessors
\* ------------------------------------------------------------------------

Ok(val)        == [kind |-> "ok", val |-> val]
Fail(exc, val) == [kind |-> exc, val |-> val]

\* A loop `for i, src in enumerate(srcList)` is the function loop[k]: the local
\* array after k passes, loop[0] being the array before the loop; the first
\* exception ends it (i counts from 1 here, from 0 in Python).
Step(prev, next) == IF prev.kind # "ok" THEN prev ELSE next

\* arr[:,i] = arr[:,i] + v
AddToColumn(arr, i, v) ==
    IF i > NCols(arr) THEN Fail("IndexError", arr)
    ELSE IF Len(v) # NRows(arr) THEN Fail("ValueError", arr)
    ELSE Ok(SetColumn(arr, i, VecAdd(Column(arr, i), v)))

\* arr[:,i] *= k
ScaleColumn(arr, i, k) ==
    IF i > NCols(arr) THEN Fail("IndexError", arr)
    ELSE Ok(SetColumn(arr, i, VecScale(k, Column(arr, i))))

\* A * X for a sparse matrix A and a 2-D array X
SpMatMul(A, X) ==
    IF NCols(A) # NRows(X) THEN Fail("ValueError", X) ELSE Ok(MatMul(A, X))

\* the outcome of a field accessor whose local array ended as r
Returned(r, name, solution) ==
    IF r.kind = "ok" THEN Matrix(r.val, << name >>, solution)
    ELSE Raise(r.kind, << >>, << name >>, solution)

\* a faulty sum that drops the second operand
FieldAdd_dropSecond(x, y) ==
    IF Raised(x) THEN x
    ELSE IF Raised(y) THEN [y EXCEPT !.calls = x.calls \o y.calls]
    ELSE Matrix(x.val, x.calls \o y.calls, y.sol)

\* x + y for the 2-D results of two accessors called one after the other
FieldAdd(x, y) ==
    IF Raised(x) THEN x
    ELSE IF Raised(y) THEN [y EXCEPT !.calls = x.calls \o y.calls]
    ELSE IF NRows(x.val) # NRows(y.val) \/ NCols(x.val) # NCols(y.val)
         THEN Raise("ValueError", << "operands could not be broadcast together" >>,
                    x.calls \o y.calls, y.sol)
    ELSE Matrix(MatAdd(x.val, y.val), x.calls \o y.calls, y.sol)

\* the accessor `name` has run before the accessors of o
Entered(name, o) == [o EXCEPT !.calls = << name >> \o o.calls]

\* self[[src], name] for the stored field: the column of src, as an n x 1 copy
SrcIndex(this, src) == CHOOSE i \in 1..Len(this.survey.srcList) : this.survey.srcList[i] = src

\* a faulty self[[src], name] that reads the column of the first source
StoredColumn_first(this, src) == Columns(this.fields, << 1 >>)

StoredColumn(this, src) == Columns(this.fields, << SrcIndex(this, src) >>)

\* ------------------------------------------------------------------------
\* class Fields_e
\* ------------------------------------------------------------------------

Fields_e_knownFields == [eSolution |-> "E"]
Fields_e_aliasFields ==
    [e          |-> << "eSolution", "E", "_e" >>,
     ePrimary   |-> << "eSolution", "E", "_ePrimary" >>,
     eSecondary |-> << "eSolution", "E", "_eSecondary" >>,
     b          |-> << "eSolution", "F", "_b" >>,
     bPrimary   |-> << "eSolution", "F", "_bPrimary" >>,
     bSecondary |-> << "eSolution", "F", "_bSecondary" >>]

Fields_e_startup(survey) ==
    [prob |-> survey.prob, _edgeCurl |-> survey.prob.mesh.edgeCurl]

\* a faulty _ePrimary that accumulates the primary field in the array it was
\* handed
Fields_e__ePrimary_inPlace(this, eSolution, srcList) ==
    LET loop[k \in 0..Len(srcList)] ==
            IF k = 0 THEN Ok(eSolution)
            ELSE Step(loop[k - 1],
                      AddToColumn(loop[k - 1].val, k,
                                  SrcPrimary(srcList[k], this.attrs.prob, "e")))
    IN  Returned(loop[Len(srcList)], "_ePrimary", loop[Len(srcList)].val)

Fields_e__ePrimary(this, eSolution, srcList) ==
    LET loop[k \in 0..Len(srcList)] ==
            IF k = 0 THEN Ok(Zeros(NRows(eSolution), NCols(eSolution)))
            ELSE Step(loop[k - 1],
                      AddToColumn(loop[k - 1].val, k,
                                  SrcPrimary(srcList[k], this.attrs.prob, "e")))
    IN  Returned(loop[Len(srcList)], "_ePrimary", eSolution)

Fields_e__eSecondary(this, eSolution, srcList) ==
    Matrix(eSolution, << "_eSecondary" >>, eSolution)

Fields_e__eDeriv_u(this, src, v, adjoint) ==
    Entered("_eDeriv_u", GivenVec(IdentityMul(v)))

Fields_e__eDeriv_m(this, src, v, adjoint) ==
    Zero(<< "_eDeriv_m" >>)

Fields_e__bPrimary(this, eSolution, srcList) ==
    LET loop[k \in 0..Len(srcList)] ==
            IF k = 0 THEN Ok(Zeros(NRows(this.attrs._edgeCurl), NCols(eSolution)))
            ELSE Step(loop[k - 1],
                      AddToColumn(loop[k - 1].val, k,
                                  SrcPrimary(srcList[k], this.attrs.prob, "b")))
    IN  Returned(loop[Len(srcList)], "_bPrimary", eSolution)

\* a faulty pass of the _bSecondary loop that subtracts the magnetic source term
Fields_e__bSecondary_body_minus(this, b, i, src) ==
    IF i > NCols(b) THEN Fail("IndexError", b)
    ELSE IF IOmegaIsZero(src) THEN Fail("ZeroDivisionError", b)
    ELSE LET scaled == ScaleColumn(b, i, CNeg(InvIOmega(src)))
             S_m    == SrcEval(src, this.attrs.prob).S_m
         IN  IF scaled.kind # "ok" THEN scaled
             ELSE AddToColumn(scaled.val, i, VecScale(CNeg(InvIOmega(src)), S_m))

Fields_e__bSecondary_body(this, b, i, src) ==
    IF i > NCols(b) THEN Fail("IndexError", b)
    ELSE IF IOmegaIsZero(src) THEN Fail("ZeroDivisionError", b)
    ELSE LET scaled == ScaleColumn(b, i, CNeg(InvIOmega(src)))
             S_m    == SrcEval(src, this.attrs.prob).S_m
         IN  IF scaled.kind # "ok" THEN scaled
             ELSE AddToColumn(scaled.val, i, VecScale(InvIOmega(src), S_m))

\* a faulty _bSecondary that writes the columns in reverse source order
Fields_e__bSecondary_reversed(this, eSolution, srcList) ==
    LET C == this.attrs._edgeCurl
        b == SpMatMul(C, eSolution)
    IN  IF b.kind # "ok" THEN Raise(b.kind, << >>, << "_bSecondary" >>, eSolution)
        ELSE LET loop[k \in 0..Len(srcList)] ==
                     IF k = 0 THEN b
                     ELSE Step(loop[k - 1],
                               Fields_e__bSecondary_body(this, loop[k - 1].val,
                                                         Len(srcList) + 1 - k, srcList[k]))
             IN  Returned(loop[Len(srcList)], "_bSecondary", eSolution)

Fields_e__bSecondary(this, eSolution, srcList) ==
    LET C == this.attrs._edgeCurl
        b == SpMatMul(C, eSolution)
    IN  IF b.kind # "ok" THEN Raise(b.kind, << >>, << "_bSecondary" >>, eSolution)
        ELSE LET loop[k \in 0..Len(srcList)] ==
                     IF k = 0 THEN b
                     ELSE Step(loop[k - 1], Fields_e__bSecondary_body(this, loop[k - 1].val, k, srcList[k]))
             IN  Returned(loop[Len(srcList)], "_bSecondary", eSolution)

Fields_e__bSecondaryDeriv_u(this, src, du_dm, adjoint) ==
    LET C == this.attrs._edgeCurl
    IN  IF IOmegaIsZero(src)
        THEN Raise("ZeroDivisionError", << >>, << "_bSecondaryDeriv_u" >>, << >>)
        ELSE Entered("_bSecondaryDeriv_u",
                 IF adjoint
                 THEN ValScale(CNeg(InvIOmega(src)), ValMatVec(Transpose(C), GivenVec(du_dm)))
                 ELSE ValScale(CNeg(InvIOmega(src)), ValMatVec(C, GivenVec(du_dm))))

Fields_e__bSecondaryDeriv_m(this, src, v, adjoint) ==
    LET S_mDeriv == SrcEvalDeriv(src, this.attrs.prob, v, adjoint).S_mDeriv
    IN  IF Raised(S_mDeriv) THEN Entered("_bSecondaryDeriv_m", S_mDeriv)
        ELSE IF IOmegaIsZero(src)
        THEN Raise("ZeroDivisionError", << >>, << "_bSecondaryDeriv_m" >>, << >>)
        ELSE Entered("_bSecondaryDeriv_m", ValScale(InvIOmega(src), S_mDeriv))

Fields_e__bDeriv_u(this, src, du_dm, adjoint) ==
    Entered("_bDeriv_u", Fields_e__bSecondaryDeriv_u(this, src, du_dm, adjoint))

Fields_e__bDeriv_m(this, src, v, adjoint) ==
    Entered("_bDeriv_m", Fields_e__bSecondaryDeriv_m(this, src, v, adjoint))

\* ------------------------------------------------------------------------
\* class Fields_b
\* ------------------------------------------------------------------------

Fields_b_knownFields == [bSolution |-> "F"]
Fields_b_aliasFields ==
    [b          |-> << "bSolution", "F", "_b" >>,
     bPrimary   |-> << "bSolution", "F", "_bPrimary" >>,
     bSecondary |-> << "bSolution", "F", "_bSecondary" >>,
     e          |-> << "bSolution", "E", "_e" >>,
     ePrimary   |-> << "bSolution", "E", "_ePrimary" >>,
     eSecondary |-> << "bSolution", "E", "_eSecondary" >>]

Fields_b_startup(survey) ==
    [prob |-> survey.prob, _edgeCurl |-> survey.prob.mesh.edgeCurl,
     _MeSigmaI |-> survey.prob.MeSigmaI, _MfMui |-> survey.prob.MfMui,
     _MeSigmaIDeriv |-> survey.prob.MeSigmaIDeriv, _Me |-> survey.prob.Me]

\* a faulty _bPrimary that accumulates the primary field in the array it was
\* handed
Fields_b__bPrimary_inPlace(this, bSolution, srcList) ==
    LET loop[k \in 0..Len(srcList)] ==
            IF k = 0 THEN Ok(bSolution)
            ELSE Step(loop[k - 1],
                      AddToColumn(loop[k - 1].val, k,
                                  SrcPrimary(srcList[k], this.attrs.prob, "b")))
    IN  Returned(loop[Len(srcList)], "_bPrimary", loop[Len(srcList)].val)

Fields_b__bPrimary(this, bSolution, srcList) ==
    LET loop[k \in 0..Len(srcList)] ==
            IF k = 0 THEN Ok(Zeros(NRows(bSolution), NCols(bSolution)))
            ELSE Step(loop[k - 1],
                      AddToColumn(loop[k - 1].val, k,
                                  SrcPrimary(srcList[k], this.attrs.prob, "b")))
    IN  Returned(loop[Len(srcList)], "_bPrimary", bSolution)

Fields_b__bSecondary(this, bSolution, srcList) ==
    Matrix(bSolution, << "_bSecondary" >>, bSolution)

\* a faulty _bDeriv_u that returns Zero() as the model derivative does
Fields_b__bDeriv_u_zero(this, src, du_dm, adjoint) ==
    Zero(<< "_bDeriv_u" >>)

Fields_b__bDeriv_u(this, src, du_dm, adjoint) ==
    Entered("_bDeriv_u", GivenVec(IdentityMul(du_dm)))

Fields_b__bDeriv_m(this, src, v, adjoint) ==
    Zero(<< "_bDeriv_m" >>)

Fields_b__ePrimary(this, bSolution, srcList) ==
    LET loop[k \in 0..Len(srcList)] ==
            IF k = 0 THEN Ok(Zeros(NCols(this.attrs._edgeCurl), NCols(bSolution)))
            ELSE Step(loop[k - 1],
                      AddToColumn(loop[k - 1].val, k,
                                  SrcPrimary(srcList[k], this.attrs.prob, "e")))
    IN  Returned(loop[Len(srcList)], "_ePrimary", bSolution)

\* a faulty pass of the _eSecondary loop that scales the source term by the
\* frequency of the source, as the E-B magnetic field does
Fields_b__eSecondary_body_scaled(this, e, i, src) ==
    LET S_e == SrcEval(src, this.attrs.prob).S_e
    IN  IF i > NCols(e) THEN Fail("IndexError", e)
        ELSE IF NCols(this.attrs._MeSigmaI) # Len(S_e) THEN Fail("ValueError", e)
        ELSE AddToColumn(e, i, VecScale(InvIOmega(src),
                                        MatVec(this.attrs._MeSigmaI, VecNeg(S_e))))

Fields_b__eSecondary_body(this, e, i, src) ==
    LET S_e == SrcEval(src, this.attrs.prob).S_e
    IN  IF i > NCols(e) THEN Fail("IndexError", e)
        ELSE IF NCols(this.attrs._MeSigmaI) # Len(S_e) THEN Fail("ValueError", e)
        ELSE AddToColumn(e, i, MatVec(this.attrs._MeSigmaI, VecNeg(S_e)))

Fields_b__eSecondary(this, bSolution, srcList) ==
    LET a  == SpMatMul(this.attrs._MfMui, bSolution)
        ca == IF a.kind = "ok" THEN SpMatMul(Transpose(this.attrs._edgeCurl), a.val) ELSE a
        e  == IF ca.kind = "ok" THEN SpMatMul(this.attrs._MeSigmaI, ca.val) ELSE ca
    IN  IF e.kind # "ok" THEN Raise(e.kind, << >>, << "_eSecondary" >>, bSolution)
        ELSE LET loop[k \in 0..Len(srcList)] ==
                     IF k = 0 THEN e
                     ELSE Step(loop[k - 1], Fields_b__eSecondary_body(this, loop[k - 1].val, k, srcList[k]))
             IN  Returned(loop[Len(srcList)], "_eSecondary", bSolution)

\* a faulty _eSecondaryDeriv_u whose adjoint branch repeats the forward map
Fields_b__eSecondaryDeriv_u_forwardOnly(this, src, du_dm, adjoint) ==
    Entered("_eSecondaryDeriv_u",
        ValMatVec(this.attrs._MeSigmaI,
            ValMatVec(Transpose(this.attrs._edgeCurl),
                ValMatVec(this.attrs._MfMui, GivenVec(du_dm)))))

Fields_b__eSecondaryDeriv_u(this, src, du_dm, adjoint) ==
    Entered("_eSecondaryDeriv_u",
        IF ~adjoint
        THEN ValMatVec(this.attrs._MeSigmaI,
                 ValMatVec(Transpose(this.attrs._edgeCurl),
                     ValMatVec(this.attrs._MfMui, GivenVec(du_dm))))
        ELSE ValMatVec(Transpose(this.attrs._MfMui),
                 ValMatVec(this.attrs._edgeCurl,
                     ValMatVec(Transpose(this.attrs._MeSigmaI), GivenVec(du_dm)))))

\* w = C.T * (MfMui * bSolution) - mkvc(Me * S_e, 2), an nE x 1 array
Fields_b__eSecondaryDeriv_m_w(this, src, adjoint) ==
    LET bSolution == StoredColumn(this, src)
        S_e == SrcEval(src, this.attrs.prob).S_e
        Me  == IF adjoint THEN Transpose(this.attrs._Me) ELSE this.attrs._Me
        w   == MatMul(Transpose(this.attrs._edgeCurl), MatMul(this.attrs._MfMui, bSolution))
    IN  AsColumn(VecSub(Column(w, 1), MatVec(Me, S_e)))

Fields_b__eSecondaryDeriv_m(this, src, v, adjoint) ==
    LET w        == Fields_b__eSecondaryDeriv_m_w(this, src, adjoint)
        D        == MassDeriv(this.attrs._MeSigmaIDeriv, w)
        de_dm    == IF ~adjoint THEN ValMatVec(D, GivenVec(v))
                    ELSE ValMatVec(Transpose(D), GivenVec(v))
        S_eDeriv == SrcEvalDeriv(src, this.attrs.prob, v, adjoint).S_eDeriv
    IN  IF Raised(de_dm) THEN Entered("_eSecondaryDeriv_m", de_dm)
        ELSE IF Raised(S_eDeriv) THEN Entered("_eSecondaryDeriv_m", S_eDeriv)
        ELSE Entered("_eSecondaryDeriv_m",
                 ValAdd(de_dm, ValNeg(ValMatVec(this.attrs._MeSigmaI, S_eDeriv))))

Fields_b__eDeriv_u(this, src, du_dm, adjoint) ==
    Entered("_eDeriv_u", Fields_b__eSecondaryDeriv_u(this, src, du_dm, adjoint))

Fields_b__eDeriv_m(this, src, v, adjoint) ==
    Entered("_eDeriv_m", Fields_b__eSecondaryDeriv_m(this, src, v, adjoint))

\* ------------------------------------------------------------------------
\* class Fields_j
\* ------------------------------------------------------------------------

Fields_j_knownFields == [jSolution |-> "F"]
Fields_j_aliasFields ==
    [j          |-> << "jSolution", "F", "_j" >>,
     jPrimary   |-> << "jSolution", "F", "_jPrimary" >>,
     jSecondary |-> << "jSolution", "F", "_jSecondary" >>,
     h          |-> << "jSolution", "E", "_h" >>,
     hPrimary   |-> << "jSolution", "E", "_hPrimary" >>,
     hSecondary |-> << "jSolution", "E", "_hSecondary" >>]

Fields_j_startup(survey) ==
    [prob |-> survey.prob, _edgeCurl |-> survey.prob.mesh.edgeCurl,
     _MeMuI |-> survey.prob.MeMuI, _MfRho |-> survey.prob.MfRho,
     _MfRhoDeriv |-> survey.prob.MfRhoDeriv, _Me |-> survey.prob.Me]

Fields_j__jPrimary(this, jSolution, srcList) ==
    LET loop[k \in 0..Len(srcList)] ==
            IF k = 0 THEN Ok(Zeros(NRows(jSolution), NCols(jSolution)))
            ELSE Step(loop[k - 1],
                      AddToColumn(loop[k - 1].val, k,
                                  SrcPrimary(srcList[k], this.attrs.prob, "j")))
    IN  Returned(loop[Len(srcList)], "_jPrimary", jSolution)

Fields_j__jSecondary(this, jSolution, srcList) ==
    Matrix(jSolution, << "_jSecondary" >>, jSolution)

Fields_j__j(this, jSolution, srcList) ==
    LET p == Fields_j__jPrimary(this, jSolution, srcList)
    IN  Entered("_j", IF Raised(p) THEN p
                      ELSE FieldAdd(p, Fields_j__jSecondary(this, p.sol, srcList)))

Fields_j__jDeriv_u(this, src, du_dm, adjoint) ==
    Entered("_jDeriv_u", GivenVec(IdentityMul(du_dm)))

\* a faulty _jDeriv_m that returns an array of zeros
Fields_j__jDeriv_m_zeros(this, src, v, adjoint) ==
    Entered("_jDeriv_m", GivenVec(ZeroVec(Len(v))))

Fields_j__jDeriv_m(this, src, v, adjoint) ==
    Zero(<< "_jDeriv_m" >>)

\* a faulty _hPrimary that allocates its result like the solution, on faces
Fields_j__hPrimary_likeSolution(this, jSolution, srcList) ==
    LET loop[k \in 0..Len(srcList)] ==
            IF k = 0 THEN Ok(Zeros(NRows(jSolution), NCols(jSolution)))
            ELSE Step(loop[k - 1],
                      AddToColumn(loop[k - 1].val, k,
                                  SrcPrimary(srcList[k], this.attrs.prob, "h")))
    IN  Returned(loop[Len(srcList)], "_hPrimary", jSolution)

Fields_j__hPrimary(this, jSolution, srcList) ==
    LET loop[k \in 0..Len(srcList)] ==
            IF k = 0 THEN Ok(Zeros(NCols(this.attrs._edgeCurl), NCols(jSolution)))
            ELSE Step(loop[k - 1],
                      AddToColumn(loop[k - 1].val, k,
                                  SrcPrimary(srcList[k], this.attrs.prob, "h")))
    IN  Returned(loop[Len(srcList)], "_hPrimary", jSolution)

\* a faulty pass of the _hSecondary loop that adds the magnetic source term
\* without the inverse mass matrix MeMuI, as the E-B magnetic field does
Fields_j__hSecondary_body_noMeMuI(this, h, i, src) ==
    IF i > NCols(h) THEN Fail("IndexError", h)
    ELSE IF IOmegaIsZero(src) THEN Fail("ZeroDivisionError", h)
    ELSE LET scaled == ScaleColumn(h, i, CNeg(InvIOmega(src)))
             S_m    == SrcEval(src, this.attrs.prob).S_m
         IN  IF scaled.kind # "ok" THEN scaled
             ELSE AddToColumn(scaled.val, i, VecScale(InvIOmega(src), S_m))

Fields_j__hSecondary_body(this, h, i, src) ==
    IF i > NCols(h) THEN Fail("IndexError", h)
    ELSE IF IOmegaIsZero(src) THEN Fail("ZeroDivisionError", h)
    ELSE LET scaled == ScaleColumn(h, i, CNeg(InvIOmega(src)))
             S_m    == SrcEval(src, this.attrs.prob).S_m
         IN  IF scaled.kind # "ok" THEN scaled
             ELSE IF NCols(this.attrs._MeMuI) # Len(S_m) THEN Fail("ValueError", scaled.val)
             ELSE AddToColumn(scaled.val, i,
                      MatVec(this.attrs._MeMuI, VecScale(InvIOmega(src), S_m)))

Fields_j__hSecondary(this, jSolution, srcList) ==
    LET a  == SpMatMul(this.attrs._MfRho, jSolution)
        ca == IF a.kind = "ok" THEN SpMatMul(Transpose(this.attrs._edgeCurl), a.val) ELSE a
        h  == IF ca.kind = "ok" THEN SpMatMul(this.attrs._MeMuI, ca.val) ELSE ca
    IN  IF h.kind # "ok" THEN Raise(h.kind, << >>, << "_hSecondary" >>, jSolution)
        ELSE LET loop[k \in 0..Len(srcList)] ==
                     IF k = 0 THEN h
                     ELSE Step(loop[k - 1], Fields_j__hSecondary_body(this, loop[k - 1].val, k, srcList[k]))
             IN  Returned(loop[Len(srcList)], "_hSecondary", jSolution)

Fields_j__hSecondaryDeriv_u(this, src, du_dm, adjoint) ==
    IF IOmegaIsZero(src)
    THEN Raise("ZeroDivisionError", << >>, << "_hSecondaryDeriv_u" >>, << >>)
    ELSE Entered("_hSecondaryDeriv_u",
        IF ~adjoint
        THEN ValScale(CNeg(InvIOmega(src)),
                 ValMatVec(this.attrs._MeMuI,
                     ValMatVec(Transpose(this.attrs._edgeCurl),
                         ValMatVec(this.attrs._MfRho, GivenVec(du_dm)))))
        ELSE ValScale(CNeg(InvIOmega(src)),
                 ValMatVec(Transpose(this.attrs._MfRho),
                     ValMatVec(this.attrs._edgeCurl,
                         ValMatVec(Transpose(this.attrs._MeMuI), GivenVec(du_dm))))))

\* the resistivity part of hSecondaryDeriv_m
Fields_j__hSecondaryDeriv_m_rho(this, src, v, adjoint) ==
    LET jSolution == StoredColumn(this, src)
        D == MassDeriv(this.attrs._MfRhoDeriv, jSolution)
    IN  IF ~adjoint
        THEN ValScale(CNeg(InvIOmega(src)),
                 ValMatVec(this.attrs._MeMuI,
                     ValMatVec(Transpose(this.attrs._edgeCurl), ValMatVec(D, GivenVec(v)))))
        ELSE ValScale(CNeg(InvIOmega(src)),
                 ValMatVec(Transpose(D),
                     ValMatVec(this.attrs._edgeCurl,
                         ValMatVec(Transpose(this.attrs._MeMuI), GivenVec(v)))))

\* the source part of hSecondaryDeriv_m; src.evalDeriv(prob, adjoint=adjoint)
\* hands back the derivative as a callable, applied here to its argument
Fields_j__hSecondaryDeriv_m_src(this, src, v, adjoint) ==
    LET MeMuI == this.attrs._MeMuI
        Me    == this.attrs._Me
    IN  IF ~adjoint
        THEN ValScale(InvIOmega(src),
                 ValMatVec(MeMuI,
                     ValMatVec(Me, SrcEvalDeriv(src, this.attrs.prob, v, adjoint).S_mDeriv)))
        ELSE LET arg == ValMatVec(Transpose(Me), ValMatVec(Transpose(MeMuI), GivenVec(v)))
             IN  IF Raised(arg) THEN arg
                 ELSE ValScale(InvIOmega(src),
                          SrcEvalDeriv(src, this.attrs.prob, arg.val, adjoint).S_mDeriv)

Fields_j__hSecondaryDeriv_m(this, src, v, adjoint) ==
    IF IOmegaIsZero(src)
    THEN Raise("ZeroDivisionError", << >>, << "_hSecondaryDeriv_m" >>, << >>)
    ELSE LET hDeriv_m == Fields_j__hSecondaryDeriv_m_rho(this, src, v, adjoint)
         IN  IF Raised(hDeriv_m) THEN Entered("_hSecondaryDeriv_m", hDeriv_m)
             ELSE Entered("_hSecondaryDeriv_m",
                      ValAdd(hDeriv_m, Fields_j__hSecondaryDeriv_m_src(this, src, v, adjoint)))

Fields_j__hDeriv_u(this, src, du_dm, adjoint) ==
    Entered("_hDeriv_u", Fields_j__hSecondaryDeriv_u(this, src, du_dm, adjoint))

Fields_j__hDeriv_m(this, src, v, adjoint) ==
    Entered("_hDeriv_m", Fields_j__hSecondaryDeriv_m(this, src, v, adjoint))

\* ------------------------------------------------------------------------
\* class Fields_h
\* ------------------------------------------------------------------------

Fields_h_knownFields == [hSolution |-> "E"]
\* a faulty table without the secondary current density
Fields_h_aliasFields_short ==
    [h          |-> << "hSolution", "E", "_h" >>,
     hPrimary   |-> << "hSolution", "E", "_hPrimary" >>,
     hSecondary |-> << "hSolution", "E", "_hSecondary" >>,
     j          |-> << "hSolution", "F", "_j" >>,
     jPrimary   |-> << "hSolution", "F", "_jPrimary" >>]

Fields_h_aliasFields ==
    [h          |-> << "hSolution", "E", "_h" >>,
     hPrimary   |-> << "hSolution", "E", "_hPrimary" >>,
     hSecondary |-> << "hSolution", "E", "_hSecondary" >>,
     j          |-> << "hSolution", "F", "_j" >>,
     jPrimary   |-> << "hSolution", "F", "_jPrimary" >>,
     jSecondary |-> << "hSolution", "F", "_jSecondary" >>]

Fields_h_startup(survey) ==
    [prob |-> survey.prob, _edgeCurl |-> survey.prob.mesh.edgeCurl,
     _MeMuI |-> survey.prob.MeMuI, _MfRho |-> survey.prob.MfRho]

Fields_h__hPrimary(this, hSolution, srcList) ==
    LET loop[k \in 0..Len(srcList)] ==
            IF k = 0 THEN Ok(Zeros(NRows(hSolution), NCols(hSolution)))
            ELSE Step(loop[k - 1],
                      AddToColumn(loop[k - 1].val, k,
                                  SrcPrimary(srcList[k], this.attrs.prob, "h")))
    IN  Returned(loop[Len(srcList)], "_hPrimary", hSolution)

Fields_h__hSecondary(this, hSolution, srcList) ==
    Matrix(hSolution, << "_hSecondary" >>, hSolution)

Fields_h__hDeriv_u(this, src, du_dm, adjoint) ==
    Entered("_hDeriv_u", GivenVec(IdentityMul(du_dm)))

Fields_h__hDeriv_m(this, src, v, adjoint) ==
    Zero(<< "_hDeriv_m" >>)

Fields_h__jPrimary(this, hSolution, srcList) ==
    LET loop[k \in 0..Len(srcList)] ==
            IF k = 0 THEN Ok(Zeros(NRows(this.attrs._edgeCurl), NCols(hSolution)))
            ELSE Step(loop[k - 1],
                      AddToColumn(loop[k - 1].val, k,
                                  SrcPrimary(srcList[k], this.attrs.prob, "j")))
    IN  Returned(loop[Len(srcList)], "_jPrimary", hSolution)

Fields_h__jSecondary_body(this, j, i, src) ==
    AddToColumn(j, i, VecNeg(SrcEval(src, this.attrs.prob).S_e))

Fields_h__jSecondary(this, hSolution, srcList) ==
    LET j == SpMatMul(this.attrs._edgeCurl, hSolution)
    IN  IF j.kind # "ok" THEN Raise(j.kind, << >>, << "_jSecondary" >>, hSolution)
        ELSE LET loop[k \in 0..Len(srcList)] ==
                     IF k = 0 THEN j
                     ELSE Step(loop[k - 1], Fields_h__jSecondary_body(this, loop[k - 1].val, k, srcList[k]))
             IN  Returned(loop[Len(srcList)], "_jSecondary", hSolution)

Fields_h__jSecondaryDeriv_u(this, src, du_dm, adjoint) ==
    Entered("_jSecondaryDeriv_u",
        IF ~adjoint THEN ValMatVec(this.attrs._edgeCurl, GivenVec(du_dm))
        ELSE ValMatVec(Transpose(this.attrs._edgeCurl), GivenVec(du_dm)))

\* a faulty _jSecondaryDeriv_m that asks the source for its forward derivative
\* whatever the adjoint flag
Fields_h__jSecondaryDeriv_m_forwardOnly(this, src, v, adjoint) ==
    Entered("_jSecondaryDeriv_m",
        ValNeg(SrcEvalDeriv(src, this.attrs.prob, v, FALSE).S_eDeriv))

Fields_h__jSecondaryDeriv_m(this, src, v, adjoint) ==
    Entered("_jSecondaryDeriv_m",
        ValNeg(SrcEvalDeriv(src, this.attrs.prob, v, adjoint).S_eDeriv))

Fields_h__jDeriv_u(this, src, du_dm, adjoint) ==
    Entered("_jDeriv_u", Fields_h__jSecondaryDeriv_u(this, src, du_dm, adjoint))

Fields_h__jDeriv_m(this, src, v, adjoint) ==
    Entered("_jDeriv_m", Fields_h__jSecondaryDeriv_m(this, src, v, adjoint))

\* ------------------------------------------------------------------------
\* class Fields: attribute lookup and the accessors shared by the variants
\* ------------------------------------------------------------------------

Variants == {"Fields_e", "Fields_b", "Fields_j", "Fields_h"}

\* the methods class Fields defines, inherited by every variant
Fields_methods ==
    {"_e", "_b", "_h", "_j", "_eDeriv", "_bDeriv", "_hDeriv", "_jDeriv"}

Fields_e_methods ==
    {"_ePrimary", "_eSecondary", "_eDeriv_u", "_eDeriv_m", "_bPrimary", "_bSecondary",
     "_bSecondaryDeriv_u", "_bSecondaryDeriv_m", "_bDeriv_u", "_bDeriv_m"}

Fields_b_methods ==
    {"_bPrimary", "_bSecondary", "_bDeriv_u", "_bDeriv_m", "_ePrimary", "_eSecondary",
     "_eSecondaryDeriv_u", "_eSecondaryDeriv_m", "_eDeriv_u", "_eDeriv_m"}

Fields_j_methods ==
    {"_jPrimary", "_jSecondary", "_j", "_jDeriv_u", "_jDeriv_m", "_hPrimary", "_hSecondary",
     "_hSecondaryDeriv_u", "_hSecondaryDeriv_m", "_hDeriv_u", "_hDeriv_m"}

Fields_h_methods ==
    {"_hPrimary", "_hSecondary", "_hDeriv_u", "_hDeriv_m", "_jPrimary", "_jSecondary",
     "_jSecondaryDeriv_u", "_jSecondaryDeriv_m", "_jDeriv_u", "_jDeriv_m"}

OwnMethods(variant) ==
    CASE variant = "Fields_e" -> Fields_e_methods
      [] variant = "Fields_b" -> Fields_b_methods
      [] variant = "Fields_j" -> Fields_j_methods
      [] variant = "Fields_h" -> Fields_h_methods

\* getattr(self, name, None) is not None
HasAttr(this, name) == name \in (Fields_methods \cup OwnMethods(this.variant))

knownFields(variant) ==
    CASE variant = "Fields_e" -> Fields_e_knownFields
      [] variant = "Fields_b" -> Fields_b_knownFields
      [] variant = "Fields_j" -> Fields_j_knownFields
      [] variant = "Fields_h" -> Fields_h_knownFields

aliasFields(variant) ==
    CASE variant = "Fields_e" -> Fields_e_aliasFields
      [] variant = "Fields_b" -> Fields_b_aliasFields
      [] variant = "Fields_j" -> Fields_j_aliasFields
      [] variant = "Fields_h" -> Fields_h_aliasFields

startup(variant, survey) ==
    CASE variant = "Fields_e" -> Fields_e_startup(survey)
      [] variant = "Fields_b" -> Fields_b_startup(survey)
      [] variant = "Fields_j" -> Fields_j_startup(survey)
      [] variant = "Fields_h" -> Fields_h_startup(survey)

\* self.knownFields.keys()[0]
KnownKey(this) == CHOOSE k \in DOMAIN knownFields(this.variant) : TRUE

\* self._ePrimary(solution, srcList), ...: Python looks the method up on the
\* variant's class; one dispatcher per method name, over the variants that
\* define it
Self__ePrimary(this, solution, srcList) ==
    CASE this.variant = "Fields_e" -> Fields_e__ePrimary(this, solution, srcList)
      [] this.variant = "Fields_b" -> Fields_b__ePrimary(this, solution, srcList)

Self__eSecondary(this, solution, srcList) ==
    CASE this.variant = "Fields_e" -> Fields_e__eSecondary(this, solution, srcList)
      [] this.variant = "Fields_b" -> Fields_b__eSecondary(this, solution, srcList)

Self__bPrimary(this, solution, srcList) ==
    CASE this.variant = "Fields_e" -> Fields_e__bPrimary(this, solution, srcList)
      [] this.variant = "Fields_b" -> Fields_b__bPrimary(this, solution, srcList)

Self__bSecondary(this, solution, srcList) ==
    CASE this.variant = "Fields_e" -> Fields_e__bSecondary(this, solution, srcList)
      [] this.variant = "Fields_b" -> Fields_b__bSecondary(this, solution, srcList)

Self__hPrimary(this, solution, srcList) ==
    CASE this.variant = "Fields_j" -> Fields_j__hPrimary(this, solution, srcList)
      [] this.variant = "Fields_h" -> Fields_h__hPrimary(this, solution, srcList)

Self__hSecondary(this, solution, srcList) ==
    CASE this.variant = "Fields_j" -> Fields_j__hSecondary(this, solution, srcList)
      [] this.variant = "Fields_h" -> Fields_h__hSecondary(this, solution, srcList)

Self__jPrimary(this, solution, srcList) ==
    CASE this.variant = "Fields_j" -> Fields_j__jPrimary(this, solution, srcList)
      [] this.variant = "Fields_h" -> Fields_h__jPrimary(this, solution, srcList)

Self__jSecondary(this, solution, srcList) ==
    CASE this.variant = "Fields_j" -> Fields_j__jSecondary(this, solution, srcList)
      [] this.variant = "Fields_h" -> Fields_h__jSecondary(this, solution, srcList)

Self__eDeriv_u(this, src, x, adjoint) ==
    CASE this.variant = "Fields_e" -> Fields_e__eDeriv_u(this, src, x, adjoint)
      [] this.variant = "Fields_b" -> Fields_b__eDeriv_u(this, src, x, adjoint)

Self__eDeriv_m(this, src, x, adjoint) ==
    CASE this.variant = "Fields_e" -> Fields_e__eDeriv_m(this, src, x, adjoint)
      [] this.variant = "Fields_b" -> Fields_b__eDeriv_m(this, src, x, adjoint)

Self__bDeriv_u(this, src, x, adjoint) ==
    CASE this.variant = "Fields_e" -> Fields_e__bDeriv_u(this, src, x, adjoint)
      [] this.variant = "Fields_b" -> Fields_b__bDeriv_u(this, src, x, adjoint)

Self__bDeriv_m(this, src, x, adjoint) ==
    CASE this.variant = "Fields_e" -> Fields_e__bDeriv_m(this, src, x, adjoint)
      [] this.variant = "Fields_b" -> Fields_b__bDeriv_m(this, src, x, adjoint)

Self__hDeriv_u(this, src, x, adjoint) ==
    CASE this.variant = "Fields_j" -> Fields_j__hDeriv_u(this, src, x, adjoint)
      [] this.variant = "Fields_h" -> Fields_h__hDeriv_u(this, src, x, adjoint)

Self__hDeriv_m(this, src, x, adjoint) ==
    CASE this.variant = "Fields_j" -> Fields_j__hDeriv_m(this, src, x, adjoint)
      [] this.variant = "Fields_h" -> Fields_h__hDeriv_m(this, src, x, adjoint)

Self__jDeriv_u(this, src, x, adjoint) ==
    CASE this.variant = "Fields_j" -> Fields_j__jDeriv_u(this, src, x, adjoint)
      [] this.variant = "Fields_h" -> Fields_h__jDeriv_u(this, src, x, adjoint)

Self__jDeriv_m(this, src, x, adjoint) ==
    CASE this.variant = "Fields_j" -> Fields_j__jDeriv_m(this, src, x, adjoint)
      [] this.variant = "Fields_h" -> Fields_h__jDeriv_m(this, src, x, adjoint)

\* self.<name>(src, x, adjoint) for a derivative accessor the variant defines;
\* each secondary derivative belongs to one variant only
CallDerivAccessor(this, name, src, x, adjoint) ==
    CASE name = "_eDeriv_u" -> Self__eDeriv_u(this, src, x, adjoint)
      [] name = "_eDeriv_m" -> Self__eDeriv_m(this, src, x, adjoint)
      [] name = "_bDeriv_u" -> Self__bDeriv_u(this, src, x, adjoint)
      [] name = "_bDeriv_m" -> Self__bDeriv_m(this, src, x, adjoint)
      [] name = "_hDeriv_u" -> Self__hDeriv_u(this, src, x, adjoint)
      [] name = "_hDeriv_m" -> Self__hDeriv_m(this, src, x, adjoint)
      [] name = "_jDeriv_u" -> Self__jDeriv_u(this, src, x, adjoint)
      [] name = "_jDeriv_m" -> Self__jDeriv_m(this, src, x, adjoint)
      [] name = "_eSecondaryDeriv_u" -> Fields_b__eSecondaryDeriv_u(this, src, x, adjoint)
      [] name = "_eSecondaryDeriv_m" -> Fields_b__eSecondaryDeriv_m(this, src, x, adjoint)
      [] name = "_bSecondaryDeriv_u" -> Fields_e__bSecondaryDeriv_u(this, src, x, adjoint)
      [] name = "_bSecondaryDeriv_m" -> Fields_e__bSecondaryDeriv_m(this, src, x, adjoint)
      [] name = "_hSecondaryDeriv_u" -> Fields_j__hSecondaryDeriv_u(this, src, x, adjoint)
      [] name = "_hSecondaryDeriv_m" -> Fields_j__hSecondaryDeriv_m(this, src, x, adjoint)
      [] name = "_jSecondaryDeriv_u" -> Fields_h__jSecondaryDeriv_u(this, src, x, adjoint)
      [] name = "_jSecondaryDeriv_m" -> Fields_h__jSecondaryDeriv_m(this, src, x, adjoint)

\* a faulty fallback that returns the solution instead of raising
NotImplemented_default(this, what, solution) ==
    Matrix(solution, << >>, solution)

\* raise NotImplementedError('Getting e from %s is not implemented' % self.knownFields.keys()[0])
NotImplemented(this, what, solution) ==
    Raise("NotImplementedError",
          << "Getting ", what, " from ", KnownKey(this), " is not implemented" >>,
          << >>, solution)

\* primary + secondary, the second accessor seeing the array the first left
Fields__e(this, solution, srcList) ==
    Entered("_e",
        IF ~HasAttr(this, "_ePrimary") \/ ~HasAttr(this, "_eSecondary")
        THEN NotImplemented(this, "e", solution)
        ELSE LET p == Self__ePrimary(this, solution, srcList)
             IN  IF Raised(p) THEN p
                 ELSE FieldAdd(p, Self__eSecondary(this, p.sol, srcList)))

Fields__b(this, solution, srcList) ==
    Entered("_b",
        IF ~HasAttr(this, "_bPrimary") \/ ~HasAttr(this, "_bSecondary")
        THEN NotImplemented(this, "b", solution)
        ELSE LET p == Self__bPrimary(this, solution, srcList)
             IN  IF Raised(p) THEN p
                 ELSE FieldAdd(p, Self__bSecondary(this, p.sol, srcList)))

Fields__h(this, solution, srcList) ==
    Entered("_h",
        IF ~HasAttr(this, "_hPrimary") \/ ~HasAttr(this, "_hSecondary")
        THEN NotImplemented(this, "h", solution)
        ELSE LET p == Self__hPrimary(this, solution, srcList)
             IN  IF Raised(p) THEN p
                 ELSE FieldAdd(p, Self__hSecondary(this, p.sol, srcList)))

Fields__j(this, solution, srcList) ==
    Entered("_j",
        IF ~HasAttr(this, "_jPrimary") \/ ~HasAttr(this, "_jSecondary")
        THEN NotImplemented(this, "j", solution)
        ELSE LET p == Self__jPrimary(this, solution, srcList)
             IN  IF Raised(p) THEN p
                 ELSE FieldAdd(p, Self__jSecondary(this, p.sol, srcList)))

Fields__eDeriv(this, src, du_dm, v, adjoint) ==
    Entered("_eDeriv",
        IF ~HasAttr(this, "_eDeriv_u") \/ ~HasAttr(this, "_eDeriv_m")
        THEN NotImplemented(this, "eDerivs", << >>)
        ELSE ValAdd(Self__eDeriv_u(this, src, du_dm, adjoint),
                    Self__eDeriv_m(this, src, v, adjoint)))

\* a faulty _bDeriv that hands v to the solution derivative and du_dm to the
\* model derivative
Fields__bDeriv_swapped(this, src, du_dm, v, adjoint) ==
    Entered("_bDeriv",
        IF ~HasAttr(this, "_bDeriv_u") \/ ~HasAttr(this, "_bDeriv_m")
        THEN NotImplemented(this, "bDerivs", << >>)
        ELSE ValAdd(Self__bDeriv_u(this, src, v, adjoint),
                    Self__bDeriv_m(this, src, du_dm, adjoint)))

Fields__bDeriv(this, src, du_dm, v, adjoint) ==
    Entered("_bDeriv",
        IF ~HasAttr(this, "_bDeriv_u") \/ ~HasAttr(this, "_bDeriv_m")
        THEN NotImplemented(this, "bDerivs", << >>)
        ELSE ValAdd(Self__bDeriv_u(this, src, du_dm, adjoint),
                    Self__bDeriv_m(this, src, v, adjoint)))

Fields__hDeriv(this, src, du_dm, v, adjoint) ==
    Entered("_hDeriv",
        IF ~HasAttr(this, "_hDeriv_u") \/ ~HasAttr(this, "_hDeriv_m")
        THEN NotImplemented(this, "hDerivs", << >>)
        ELSE ValAdd(Self__hDeriv_u(this, src, du_dm, adjoint),
                    Self__hDeriv_m(this, src, v, adjoint)))

Fields__jDeriv(this, src, du_dm, v, adjoint) ==
    Entered("_jDeriv",
        IF ~HasAttr(this, "_jDeriv_u") \/ ~HasAttr(this, "_jDeriv_m")
        THEN NotImplemented(this, "jDerivs", << >>)
        ELSE ValAdd(Self__jDeriv_u(this, src, du_dm, adjoint),
                    Self__jDeriv_m(this, src, v, adjoint)))

\* self.<name>(solution, srcList) for a total-field accessor: Fields_j
\* overrides _j, everything else is inherited from Fields
CallTotal(this, name, solution, srcList) ==
    CASE name = "_e" -> Fields__e(this, solution, srcList)
      [] name = "_b" -> Fields__b(this, solution, srcList)
      [] name = "_h" -> Fields__h(this, solution, srcList)
      [] name = "_j" -> IF this.variant = "Fields_j" THEN Fields_j__j(this, solution, srcList)
                        ELSE Fields__j(this, solution, srcList)

\* self.<name>(src, du_dm, v, adjoint) for a total derivative
CallTotalDeriv(this, name, src, du_dm, v, adjoint) ==
    CASE name = "_eDeriv" -> Fields__eDeriv(this, src, du_dm, v, adjoint)
      [] name = "_bDeriv" -> Fields__bDeriv(this, src, du_dm, v, adjoint)
      [] name = "_hDeriv" -> Fields__hDeriv(this, src, du_dm, v, adjoint)
      [] name = "_jDeriv" -> Fields__jDeriv(this, src, du_dm, v, adjoint)

\* ------------------------------------------------------------------------
\* the surveys the model runs on: two meshes, NumSrc sources, NumVecs vectors
\* per space
\* ------------------------------------------------------------------------

NumSrc  == 2
NumVecs == 2

Meshes == {1, 2}

\* mesh 1: 3 edges and 2 faces, mesh 2: 2 edges and 3 faces
nE(m) == IF m = 1 THEN 3 ELSE 2
nF(m) == IF m = 1 THEN 2 ELSE 3
\* the number of model parameters
nM(m) == 2

IntMatrix(A) == [r \in 1..Len(A) |-> [c \in 1..Len(A[r]) |-> CInt(A[r][c])]]

edgeCurl(m) ==
    IF m = 1 THEN IntMatrix(<< << 1, -1, 0 >>, << 0, 1, -1 >> >>)
    ELSE IntMatrix(<< << 1, -1 >>, << 0, 1 >>, << -1, 0 >> >>)

\* a symmetric mass matrix: diagonal on mesh 1, tridiagonal on mesh 2
MassMatrix(m, n, d) ==
    [r \in 1..n |-> [c \in 1..n |->
        IF r = c THEN CInt(d + r)
        ELSE IF m = 2 /\ Abs(r - c) = 1 THEN COne ELSE CZero]]

Formulation(variant) == IF variant \in {"Fields_e", "Fields_b"} THEN "EB" ELSE "HJ"

Problem(variant, m) ==
    [formulation   |-> Formulation(variant),
     mesh          |-> [edgeCurl |-> edgeCurl(m)],
     MeSigmaI      |-> MassMatrix(m, nE(m), 1),
     MfMui         |-> MassMatrix(m, nF(m), 2),
     MeMuI         |-> MassMatrix(m, nE(m), 2),
     MfRho         |-> MassMatrix(m, nF(m), 1),
     Me            |-> MassMatrix(m, nE(m), 0),
     MeSigmaIDeriv |-> [r \in 1..nE(m) |-> [c \in 1..nM(m) |-> CInt(r + c - 1)]],
     MfRhoDeriv    |-> [r \in 1..nF(m) |-> [c \in 1..nM(m) |-> CInt(r * c)]]]

\* source k: frequency k, primary fields and source terms on edges and faces;
\* the source terms of the even sources depend on the model
Source(k, m) ==
    [id   |-> k,
     freq |-> k,
     pE   |-> [r \in 1..nE(m) |-> << k, r, 1 >>],
     pF   |-> [r \in 1..nF(m) |-> << r, -k, 1 >>],
     sE   |-> [r \in 1..nE(m) |-> << r + k, 1, 1 >>],
     sF   |-> [r \in 1..nF(m) |-> << 1, r * k, 1 >>],
     dsE  |-> IF k % 2 = 0
              THEN [r \in 1..nE(m) |-> [c \in 1..nM(m) |-> CInt(r + c * k)]] ELSE << >>,
     dsF  |-> IF k % 2 = 0
              THEN [r \in 1..nF(m) |-> [c \in 1..nM(m) |-> CInt(r * k - c)]] ELSE << >>]

Survey(variant, m) ==
    [srcList |-> [k \in 1..NumSrc |-> Source(k, m)], prob |-> Problem(variant, m)]

\* vector j of the n-dimensional space
PoolVec(n, j) == [r \in 1..n |-> << ((r * j) % 3) - 1, j - 1, 1 >>]

\* ------------------------------------------------------------------------
\* the field container
\* ------------------------------------------------------------------------

VARIABLES variant, mesh, survey, attrs, fields, hist
vars == << variant, mesh, survey, attrs, fields, hist >>

This == [variant |-> variant, survey |-> survey, attrs |-> attrs, fields |-> fields]

Loc(tag, m) == IF tag = "E" THEN nE(m) ELSE nF(m)
\* the rows of the stored solution
NativeDim(var, m) == Loc(knownFields(var)[CHOOSE k \in DOMAIN knownFields(var) : TRUE], m)
\* the rows of quantity X: e and h live on edges, b and j on faces
QuantityDim(X, m) == IF X \in {"e", "h"} THEN nE(m) ELSE nF(m)

FieldNames ==
    {"e", "ePrimary", "eSecondary", "b", "bPrimary", "bSecondary",
     "h", "hPrimary", "hSecondary", "j", "jPrimary", "jSecondary"}
TotalAccessors == {"_e", "_b", "_h", "_j"}
Quantities     == {"e", "b", "h", "j"}
\* the partial derivatives an accessor name can end in
DerivParts     == {"Deriv_u", "Deriv_m", "SecondaryDeriv_u", "SecondaryDeriv_m"}

\* Fields.__init__: startup() captures the operators, the stored field starts
\* as zeros, one column per source of the survey
Init ==
    /\ variant \in Variants
    /\ mesh \in Meshes
    /\ survey = Survey(variant, mesh)
    /\ attrs = startup(variant, survey)
    /\ fields = Zeros(NativeDim(variant, mesh), NumSrc)
    /\ hist = << >>

\* the solution the solver finds for source c in solve j
Solution(n, j, c) == PoolVec(n, ((c + j) % NumVecs) + 1)

\* f[srcList, 'eSolution'] = u: the solver stores the solution, one column per
\* source, once, before the container is queried
Solved(var, m, j) ==
    [r \in 1..NativeDim(var, m) |->
        [c \in 1..NumSrc |-> Solution(NativeDim(var, m), j, c)[r]]]

Solve ==
    \E j \in 1..NumVecs :
        /\ hist = << >>
        /\ fields = Zeros(NativeDim(variant, mesh), NumSrc)
        /\ fields' = Solved(variant, mesh, j)
        /\ UNCHANGED << variant, mesh, survey, attrs, hist >>

\* the lists of source indices of a query: every non-empty list without repeats
IndexLists == {s \in UNION {[1..n -> 1..NumSrc] : n \in 1..NumSrc} :
                  \A a, b \in DOMAIN s : a # b => s[a] # s[b]}
AllSources == [k \in 1..NumSrc |-> k]

\* getattr(self, func)(solution, srcList) for the accessor an alias entry names
CallByName(this, func, solution, srcList) ==
    CASE func \in TotalAccessors -> CallTotal(this, func, solution, srcList)
      [] func = "_ePrimary"   -> Self__ePrimary(this, solution, srcList)
      [] func = "_eSecondary" -> Self__eSecondary(this, solution, srcList)
      [] func = "_bPrimary"   -> Self__bPrimary(this, solution, srcList)
      [] func = "_bSecondary" -> Self__bSecondary(this, solution, srcList)
      [] func = "_hPrimary"   -> Self__hPrimary(this, solution, srcList)
      [] func = "_hSecondary" -> Self__hSecondary(this, solution, srcList)
      [] func = "_jPrimary"   -> Self__jPrimary(this, solution, srcList)
      [] func = "_jSecondary" -> Self__jSecondary(this, solution, srcList)

\* Fields.__getitem__ -> _getField: f[srcList, name]
getField(this, ind, name) ==
    LET solution == Columns(this.fields, ind)
        srcII    == [k \in 1..Len(ind) |-> this.survey.srcList[ind[k]]]
    IN  IF name \in DOMAIN knownFields(this.variant)
        THEN Matrix(solution, << >>, solution)
        ELSE IF name \notin DOMAIN aliasFields(this.variant)
        THEN Raise("KeyError", << "Invalid field name (", name, ") for get" >>, << >>, solution)
        ELSE CallByName(this, aliasFields(this.variant)[name][3], solution, srcII)

\* the stored field after a call that was handed columns ind of it and left
\* them as sol: a slice index hands a view, a list index a copy
StoredAfter(this, ind, view, sol) ==
    IF view THEN sol ELSE this.fields

\* the parts of a public field name: f[srcList, 'e'], 'ePrimary', 'eSecondary'
\* and the stored 'eSolution'
FieldParts == {"", "Primary", "Secondary", "Solution"}

\* what a query leaves in the history
Query(op, X, name, ind, view, src, du, v, adjoint, out) ==
    [op |-> op, quantity |-> X, name |-> name, ind |-> ind, view |-> view,
     src |-> src, du |-> du, v |-> v, adjoint |-> adjoint, out |-> out]

\* f[srcList, name] and f[:, name], for the index lists `lists`
Get(depth, lists) ==
    /\ Len(hist) < depth
    /\ \E X \in Quantities, part \in FieldParts, ind \in lists, view \in BOOLEAN :
        LET name == X \o part
            out  == getField(This, ind, name)
        IN  /\ view => ind = AllSources
            /\ part = "Solution" => name \in DOMAIN knownFields(variant)
            /\ fields' = StoredAfter(This, ind, view, out.sol)
            /\ hist' = Append(hist, Query("get", X, name, ind, view, 0, << >>, << >>,
                                          FALSE, out))
    /\ UNCHANGED << variant, mesh, survey, attrs >>

\* f._e(solution, srcList), ... called directly with the stored columns
CallField(depth, lists) ==
    /\ Len(hist) < depth
    /\ \E X \in Quantities, ind \in lists :
        LET name == "_" \o X
            out  == CallTotal(This, name, Columns(fields, ind),
                              [k \in 1..Len(ind) |-> survey.srcList[ind[k]]])
        IN  hist' = Append(hist, Query("call", X, name, ind, FALSE, 0, << >>, << >>,
                                       FALSE, out))
    /\ UNCHANGED << variant, mesh, survey, attrs, fields >>

\* the length of the vector a derivative of quantity X takes: forward, du
\* lives in the solution space and v in the model space; adjoint, both live in
\* the space of X
DuDim(var, m, X, adjoint) ==
    IF adjoint THEN QuantityDim(X, m) ELSE NativeDim(var, m)
VDim(m, X, adjoint) ==
    IF adjoint THEN QuantityDim(X, m) ELSE nM(m)

\* f._eDeriv(src, du_dm, v, adjoint), ... for du_dm among the vectors `vecs`
\* and v the next vector of the pool
CallDeriv(depth, vecs) ==
    /\ Len(hist) < depth
    /\ \E X \in Quantities, i \in 1..NumSrc, adjoint \in BOOLEAN, a \in vecs :
        LET name == "_" \o X \o "Deriv"
            du   == PoolVec(DuDim(variant, mesh, X, adjoint), a)
            v    == PoolVec(VDim(mesh, X, adjoint), (a % NumVecs) + 1)
            out  == CallTotalDeriv(This, name, survey.srcList[i], du, v, adjoint)
        IN  hist' = Append(hist, Query("deriv", X, name, << >>, FALSE, i, du, v,
                                       adjoint, out))
    /\ UNCHANGED << variant, mesh, survey, attrs, fields >>

\* f._eDeriv_u(src, x, adjoint), f._bSecondaryDeriv_m(src, x, adjoint), ...:
\* the partial derivatives the variant defines
CallDerivPart(depth, vecs) ==
    /\ Len(hist) < depth
    /\ \E X \in Quantities, part \in DerivParts, i \in 1..NumSrc, adjoint \in BOOLEAN,
          a \in vecs :
        LET name == "_" \o X \o part
            x    == IF part \in {"Deriv_u", "SecondaryDeriv_u"}
                    THEN PoolVec(DuDim(variant, mesh, X, adjoint), a)
                    ELSE PoolVec(VDim(mesh, X, adjoint), a)
            out  == CallDerivAccessor(This, name, survey.srcList[i], x, adjoint)
        IN  /\ name \in OwnMethods(variant)
            /\ hist' = Append(hist, Query("part", X, name, << >>, FALSE, i, x, << >>,
                                          adjoint, out))
    /\ UNCHANGED << variant, mesh, survey, attrs, fields >>

\* the solutions handed to an accessor that is called directly: the stored
\* array f[:, 'eSolution'] and its first column alone
SolutionLists == {AllSources, << 1 >>}
PrimarySecondary == {"Primary", "Secondary"}

\* f._ePrimary(solution, srcList), f._bSecondary(solution, srcList), ... called
\* directly: nothing ties the columns of the solution to the sources of the list
CallAccessor(depth, lists) ==
    /\ Len(hist) < depth
    /\ \E X \in Quantities, part \in PrimarySecondary, cols \in SolutionLists,
          ind \in lists :
        LET name == "_" \o X \o part
            out  == CallByName(This, name, Columns(fields, cols),
                               [k \in 1..Len(ind) |-> survey.srcList[ind[k]]])
        IN  /\ name \in OwnMethods(variant)
            /\ hist' = Append(hist, Query("accessor", X, name, ind, FALSE, 0, << >>,
                                          << >>, FALSE, out) @@ ("cols" :> cols))
    /\ UNCHANGED << variant, mesh, survey, attrs, fields >>

\* one query of a container
Next ==
    \/ Solve
    \/ Get(1, IndexLists)
    \/ CallField(1, IndexLists)
    \/ CallAccessor(1, IndexLists)
    \/ CallDeriv(1, 1..NumVecs)
    \/ CallDerivPart(1, 1..NumVecs)

Spec == Init /\ [][Next]_vars

\* two queries, one after the other, of a container on mesh 1 that holds a
\* solution
InitSeq ==
    /\ variant \in Variants
    /\ mesh = 1
    /\ survey = Survey(variant, mesh)
    /\ attrs = startup(variant, survey)
    /\ fields = Solved(variant, mesh, 1)
    /\ hist = << >>

NextSeq ==
    \/ Get(2, {AllSources})
    \/ CallField(2, {AllSources})
    \/ CallDeriv(2, {1})
    \/ CallDerivPart(2, {1})

SpecSeq == InitSeq /\ [][NextSeq]_vars

\* a survey whose last source has zero frequency
DegenerateSurvey(var, m) ==
    [Survey(var, m) EXCEPT !.srcList[NumSrc].freq = 0]

\* one query of a container built on a survey with a zero-frequency source
InitDegenerate ==
    /\ variant \in Variants
    /\ mesh \in Meshes
    /\ survey = DegenerateSurvey(variant, mesh)
    /\ attrs = startup(variant, survey)
    /\ fields = Zeros(NativeDim(variant, mesh), NumSrc)
    /\ hist = << >>

SpecDegenerate == InitDegenerate /\ [][Next]_vars
\* ------------------------------------------------------------------------
\* properties
\* ------------------------------------------------------------------------

Queries == {hist[k] : k \in 1..Len(hist)}
SrcsOf(ind) == [k \in 1..Len(ind) |-> survey.srcList[ind[k]]]

\* the queries that ask for the total field of a quantity
TotalQueries ==
    {q \in Queries : (q.op = "call") \/ (q.op = "get" /\ q.name = q.quantity)}

\* C1: a total-field accessor that returns a value returns exactly the
\* elementwise sum of the variant's own primary and secondary accessors called
\* with the same solution and sources.
TotalIsPrimaryPlusSecondary ==
    \A q \in TotalQueries :
        IsValue(q.out) =>
            LET solution == Columns(fields, q.ind)
                p == CallByName(This, "_" \o q.quantity \o "Primary", solution, SrcsOf(q.ind))
                s == CallByName(This, "_" \o q.quantity \o "Secondary", solution, SrcsOf(q.ind))
            IN  /\ p.kind = "matrix" /\ s.kind = "matrix"
                /\ q.out.val = [r \in 1..NRows(p.val) |->
                                   [c \in 1..NCols(p.val) |-> CAdd(p.val[r][c], s.val[r][c])]]

\* C1 happens: Fields_b returned a total e whose primary and secondary parts
\* are both non-zero
TotalReturned ==
    \E q \in TotalQueries :
        /\ variant = "Fields_b" /\ q.quantity = "e" /\ q.op = "call"
        /\ Len(q.ind) = NumSrc
        /\ IsValue(q.out)
        /\ fields # Zeros(NativeDim(variant, mesh), NumSrc)
        /\ q.out.val # Self__eSecondary(This, Columns(fields, q.ind), SrcsOf(q.ind)).val
        /\ q.out.val # Self__ePrimary(This, Columns(fields, q.ind), SrcsOf(q.ind)).val

DerivQueries == {q \in Queries : q.op = "deriv"}
PartQueries  == {q \in Queries : q.op = "part"}

\* C2: XDeriv(src, du, v, adjoint) is XDeriv_u(src, du, adjoint) +
\* XDeriv_m(src, v, adjoint) whenever the variant defines both parts: du goes
\* to the solution derivative only, v to the model derivative only, and the
\* adjoint flag to both.
DerivIsSumOfParts ==
    \A q \in DerivQueries :
        (HasAttr(This, q.name \o "_u") /\ HasAttr(This, q.name \o "_m")) =>
            LET src == survey.srcList[q.src]
                du  == CallDerivAccessor(This, q.name \o "_u", src, q.du, q.adjoint)
                dm  == CallDerivAccessor(This, q.name \o "_m", src, q.v, q.adjoint)
            IN  IF Raised(du) THEN q.out.kind = du.kind
                ELSE IF Raised(dm) THEN q.out.kind = dm.kind
                ELSE IF du.kind = "Zero" THEN q.out.kind = dm.kind /\ q.out.val = dm.val
                ELSE IF dm.kind = "Zero" THEN q.out.kind = du.kind /\ q.out.val = du.val
                ELSE IF Len(du.val) # Len(dm.val) THEN q.out.kind = "ValueError"
                ELSE /\ q.out.kind = "vector"
                     /\ q.out.val = [r \in 1..Len(du.val) |-> CAdd(du.val[r], dm.val[r])]

\* C2 happens: Fields_e returned a forward bDeriv whose two parts are both
\* arrays
DerivReturned ==
    \E q \in DerivQueries :
        /\ variant = "Fields_e" /\ q.quantity = "b" /\ ~q.adjoint
        /\ q.out.kind = "vector"
        /\ q.du # q.v
        /\ Fields_e__bDeriv_m(This, survey.srcList[q.src], q.v, FALSE).kind = "vector"

\* <w, o> for what a derivative returned, Zero() pairing to 0
Pairing(w, o) == IF o.kind = "Zero" THEN CZero ELSE Dot(w, o.val)

\* the vectors of the space quantity X lives in
OutputVecs(X) == {PoolVec(QuantityDim(X, mesh), b) : b \in 1..NumVecs}

\* C3: for every *Deriv_u accessor the adjoint map is the exact transpose of
\* the forward map: <w, Deriv_u(src, u, forward)> = <u, Deriv_u(src, w, adjoint)>
\* for every solution-space u and output-space w, under the unconjugated
\* pairing.
DerivUAdjointIsTranspose ==
    \A q \in PartQueries :
        (q.name \in {"_" \o q.quantity \o "Deriv_u", "_" \o q.quantity \o "SecondaryDeriv_u"}
         /\ ~q.adjoint) =>
            \A w \in OutputVecs(q.quantity) :
                LET adj == CallDerivAccessor(This, q.name, survey.srcList[q.src], w, TRUE)
                IN  /\ q.out.kind = "vector" /\ adj.kind = "vector"
                    /\ Len(q.out.val) = Len(w) /\ Len(adj.val) = Len(q.du)
                    /\ Dot(w, q.out.val) = Dot(q.du, adj.val)

\* C3 happens: Fields_b applied the forward eSecondaryDeriv_u to a vector it
\* does not map to zero
DerivUApplied ==
    \E q \in PartQueries :
        /\ variant = "Fields_b" /\ q.name = "_eSecondaryDeriv_u" /\ ~q.adjoint
        /\ q.out.kind = "vector"
        /\ \E w \in OutputVecs("e") : Dot(w, q.out.val) # CZero

\* C4: for every *Deriv_m accessor the adjoint map is the exact transpose of
\* the forward map, the source-term part included and at the same base point:
\* <w, Deriv_m(src, v, forward)> = <v, Deriv_m(src, w, adjoint)> for every
\* model perturbation v and output-space w (the sources' own derivative maps
\* are transpose-consistent: adjoint applies the transposed matrix).
DerivMAdjointIsTranspose ==
    \A q \in PartQueries :
        (q.name \in {"_" \o q.quantity \o "Deriv_m", "_" \o q.quantity \o "SecondaryDeriv_m"}
         /\ ~q.adjoint) =>
            \A w \in OutputVecs(q.quantity) :
                LET adj == CallDerivAccessor(This, q.name, survey.srcList[q.src], w, TRUE)
                IN  /\ IsValue(q.out) /\ IsValue(adj)
                    /\ Pairing(w, q.out) = Pairing(q.du, adj)

\* column k of a field result
ResultColumn(o, k) == Column(o.val, k)

\* the same field query for the one-element list [s_k], with solution column k
\* alone
SingleSource(q, k) ==
    IF q.op = "get" THEN getField(This, << q.ind[k] >>, q.name)
    ELSE CallTotal(This, q.name, Columns(fields, << q.ind[k] >>), SrcsOf(<< q.ind[k] >>))

FieldQueries == {q \in Queries : q.op \in {"get", "call"}}

\* C5: column k of the result for the source list [s1..sn] is the single
\* column of the result for the list [sk] with solution column k alone, for
\* every supported field name.
ColumnOrderPreserved ==
    \A q \in FieldQueries :
        IsValue(q.out) =>
            /\ NCols(q.out.val) = Len(q.ind)
            /\ \A k \in 1..Len(q.ind) :
                   LET one == SingleSource(q, k)
                   IN  IsValue(one) /\ ResultColumn(q.out, k) = ResultColumn(one, 1)

\* C5 happens: a derived secondary field was returned for the sources in
\* reverse order, and its columns differ
ReorderedReturned ==
    \E q \in FieldQueries :
        /\ q.op = "get" /\ q.name \in {"bSecondary", "hSecondary"}
        /\ variant \in {"Fields_e", "Fields_j"}
        /\ q.ind = [k \in 1..NumSrc |-> NumSrc + 1 - k]
        /\ IsValue(q.out)
        /\ ResultColumn(q.out, 1) # ResultColumn(q.out, NumSrc)
        /\ fields # Zeros(NativeDim(variant, mesh), NumSrc)

\* the quantity a query asks for has no primary or no secondary accessor
LacksField(X)  == ~HasAttr(This, "_" \o X \o "Primary") \/ ~HasAttr(This, "_" \o X \o "Secondary")
\* ... no solution derivative or no model derivative
LacksDeriv(X)  == ~HasAttr(This, "_" \o X \o "Deriv_u") \/ ~HasAttr(This, "_" \o X \o "Deriv_m")

\* C6: the total accessor _X of a quantity the variant has no primary or no
\* secondary accessor for fails with NotImplementedError and returns nothing,
\* and so does _XDeriv when _XDeriv_u or _XDeriv_m is missing; no accessor of
\* the variant has been evaluated when it fails.
UnsupportedIsNotImplemented ==
    \A q \in Queries :
        /\ (q.op = "call" /\ LacksField(q.quantity)) =>
               /\ q.out.kind = "NotImplementedError"
               /\ q.out.val = << >>
               /\ q.out.calls = << q.name >>
        /\ (q.op = "deriv" /\ LacksDeriv(q.quantity)) =>
               /\ q.out.kind = "NotImplementedError"
               /\ q.out.val = << >>
               /\ q.out.calls = << q.name >>

\* C6 happens: _h was called on Fields_e and _eDeriv on Fields_h
UnsupportedCalled ==
    \E q \in Queries :
        \/ variant = "Fields_e" /\ q.op = "call" /\ q.name = "_h"
        \/ variant = "Fields_h" /\ q.op = "deriv" /\ q.name = "_eDeriv"

\* the public names of the two quantities a variant supports
SupportedNames(var) ==
    IF var \in {"Fields_e", "Fields_b"}
    THEN {"e", "ePrimary", "eSecondary", "b", "bPrimary", "bSecondary"}
    ELSE {"j", "jPrimary", "jSecondary", "h", "hPrimary", "hSecondary"}

DerivMQueries == {q \in PartQueries : q.name = "_" \o q.quantity \o "Deriv_m"}
\* the quantity the variant solves for
IsNative(X) == KnownKey(This) = X \o "Solution"

QueriesLeaveStateAlone ==
    [][Len(hist') > Len(hist) =>
          /\ fields' = fields
          /\ attrs' = attrs
          /\ survey' = survey
          /\ LET q == hist'[Len(hist')]
             IN  q.op \in {"get", "call"} => q.out.sol = Columns(fields, q.ind)]_vars

\* C9 happens: a derived field was computed from a view of the stored,
\* non-zero solution
ViewQueried ==
    \E q \in Queries :
        /\ q.op = "get" /\ q.view
        /\ q.name \in {"b", "e", "h", "j"} /\ ~IsNative(q.quantity)
        /\ IsValue(q.out)
        /\ fields # Zeros(NativeDim(variant, mesh), NumSrc)

\* the query q asked again of the container as it is now
Replay(q) ==
    CASE q.op = "get"   -> getField(This, q.ind, q.name)
      [] q.op = "call"  -> CallTotal(This, q.name, Columns(fields, q.ind), SrcsOf(q.ind))
      [] q.op = "deriv" -> CallTotalDeriv(This, q.name, survey.srcList[q.src], q.du, q.v, q.adjoint)
      [] q.op = "part"  -> CallDerivAccessor(This, q.name, survey.srcList[q.src], q.du, q.adjoint)

\* C10: with the stored solution and the sources fixed, every query returns
\* what the same query returns when asked again, before or after any other
\* query: the container is as it was stored throughout, and each recorded
\* result is the result of asking now.
QueriesRepeatable ==
    /\ fields = Solved(variant, mesh, 1)
    /\ \A k \in 1..Len(hist) : hist[k].out = Replay(hist[k])
    /\ \A k, l \in 1..Len(hist) :
           [hist[k] EXCEPT !.out = << >>] = [hist[l] EXCEPT !.out = << >>]
               => hist[k].out = hist[l].out

\* C10 happens: Fields_b computed a field from a view of the stored solution
\* and then a model derivative that reads the stored solution
TwoQueriesAsked ==
    /\ Len(hist) > 1
    /\ variant = "Fields_b"
    /\ hist[1].op = "get" /\ hist[1].view /\ hist[1].name = "e" /\ IsValue(hist[1].out)
    /\ hist[Len(hist)].name = "_eSecondaryDeriv_m" /\ IsValue(hist[Len(hist)].out)

\* the accessors called directly
AccessorQueries == {q \in Queries : q.op = "accessor"}

\* C11: whenever the number of columns of the solution differs from the
\* length of the source list, every primary and secondary accessor fails with
\* an error and returns no array.
ShapeMismatchSurfaced ==
    \A q \in AccessorQueries :
        Len(q.cols) # Len(q.ind) => Raised(q.out)

\* C11, the half the code keeps: with more sources than columns, an accessor
\* that writes one column per source fails with IndexError
SurplusSourceRaises ==
    \A q \in AccessorQueries :
        (Len(q.cols) < Len(q.ind) /\ ~(IsNative(q.quantity) /\ q.name = "_" \o q.quantity \o "Secondary"))
            => q.out.kind = "IndexError"

\* C11 happens: Fields_e was handed two solution columns and one source, and
\* returned a primary field whose second column is zero
SurplusColumnReturned ==
    \E q \in AccessorQueries :
        /\ variant = "Fields_e" /\ q.name = "_ePrimary"
        /\ Len(q.cols) = NumSrc /\ Len(q.ind) = 1
        /\ IsValue(q.out)
        /\ Column(q.out.val, NumSrc) = ZeroVec(NRows(q.out.val))

\* the queries that ask for the secondary field of quantity X with one solution
\* column per source, and the solution and sources they were handed
SecondaryQueries(X) ==
    {q \in Queries :
        \/ q.op = "get" /\ q.name = X \o "Secondary"
        \/ q.op = "accessor" /\ q.name = "_" \o X \o "Secondary" /\ Len(q.cols) = Len(q.ind)}
QSolution(q) == Columns(fields, IF q.op = "accessor" THEN q.cols ELSE q.ind)

\* 1/(i*omega) for a source
InvIOmegaOf(src) == CInv(CMul(<< 0, 1, 1 >>, omega(src.freq)))

\* the source src with all source terms zero
Silent(src) ==
    [src EXCEPT !.sE = ZeroVec(Len(src.sE)), !.sF = ZeroVec(Len(src.sF))]

\* C12: in Fields_e, column i of bSecondary is
\* -(1/(i*omega_i)) * C * eSolution[:, i] + (1/(i*omega_i)) * S_m(src_i), the
\* curl product and the source term scaled by the frequency of source i; with
\* zero source terms the result is exactly -(1/(i*omega)) * C * solution.
BSecondaryFormula ==
    variant = "Fields_e" =>
        \A q \in SecondaryQueries("b") :
            LET C    == survey.prob.mesh.edgeCurl
                sol  == QSolution(q)
                srcs == SrcsOf(q.ind)
                quiet == Fields_e__bSecondary(This, sol, [k \in 1..Len(srcs) |-> Silent(srcs[k])])
            IN  /\ q.out.kind = "matrix"
                /\ NCols(q.out.val) = Len(srcs)
                /\ \A i \in 1..Len(srcs) :
                       Column(q.out.val, i) =
                           VecAdd(VecScale(CNeg(InvIOmegaOf(srcs[i])), MatVec(C, Column(sol, i))),
                                  VecScale(InvIOmegaOf(srcs[i]), srcs[i].sF))
                /\ quiet.kind = "matrix"
                /\ \A i \in 1..Len(srcs) :
                       Column(quiet.val, i) =
                           VecScale(CNeg(InvIOmegaOf(srcs[i])), MatVec(C, Column(sol, i)))

\* C12 happens: Fields_e returned bSecondary for all sources of a non-zero
\* solution, and the source terms show in it
BSecondaryReturned ==
    \E q \in SecondaryQueries("b") :
        /\ variant = "Fields_e" /\ Len(q.ind) = NumSrc
        /\ fields # Zeros(NativeDim(variant, mesh), NumSrc)
        /\ IsValue(q.out)
        /\ q.out.val # Fields_e__bSecondary(This, QSolution(q),
                            [k \in 1..Len(q.ind) |-> Silent(SrcsOf(q.ind)[k])]).val

\* C13: in Fields_b, column i of eSecondary is
\* MeSigmaI * (C^T * (MfMui * bSolution[:, i])) - MeSigmaI * S_e(src_i), with
\* no frequency scaling: a source of another frequency gives the same column.
ESecondaryFormula ==
    variant = "Fields_b" =>
        \A q \in SecondaryQueries("e") :
            LET C        == survey.prob.mesh.edgeCurl
                MeSigmaI == survey.prob.MeSigmaI
                MfMui    == survey.prob.MfMui
                sol      == QSolution(q)
                srcs     == SrcsOf(q.ind)
                retuned  == Fields_b__eSecondary(This, sol,
                                [k \in 1..Len(srcs) |-> [srcs[k] EXCEPT !.freq = @ + k]])
            IN  /\ q.out.kind = "matrix"
                /\ NCols(q.out.val) = Len(srcs)
                /\ \A i \in 1..Len(srcs) :
                       Column(q.out.val, i) =
                           VecSub(MatVec(MeSigmaI,
                                         MatVec(Transpose(C), MatVec(MfMui, Column(sol, i)))),
                                  MatVec(MeSigmaI, srcs[i].sE))
                /\ retuned.kind = "matrix" /\ retuned.val = q.out.val

\* C13 happens: Fields_b returned eSecondary for all sources of a non-zero
\* solution, and the source terms show in it
ESecondaryReturned ==
    \E q \in SecondaryQueries("e") :
        /\ variant = "Fields_b" /\ Len(q.ind) = NumSrc
        /\ fields # Zeros(NativeDim(variant, mesh), NumSrc)
        /\ IsValue(q.out)
        /\ q.out.val # Fields_b__eSecondary(This, QSolution(q),
                            [k \in 1..Len(q.ind) |-> Silent(SrcsOf(q.ind)[k])]).val

\* C14: in Fields_j, column i of hSecondary is
\* -(1/(i*omega_i)) * MeMuI * (C^T * (MfRho * jSolution[:, i]))
\* + (1/(i*omega_i)) * MeMuI * S_m(src_i), and forward hSecondaryDeriv_u is the
\* same linear map -(1/(i*omega)) * MeMuI * C^T * MfRho applied to du.
HSecondaryFormula ==
    variant = "Fields_j" =>
        LET C     == survey.prob.mesh.edgeCurl
            MeMuI == survey.prob.MeMuI
            MfRho == survey.prob.MfRho
            Map(src, u) ==
                VecScale(CNeg(InvIOmegaOf(src)),
                         MatVec(MeMuI, MatVec(Transpose(C), MatVec(MfRho, u))))
        IN  /\ \A q \in SecondaryQueries("h") :
                   LET sol  == QSolution(q)
                       srcs == SrcsOf(q.ind)
                   IN  /\ q.out.kind = "matrix"
                       /\ NCols(q.out.val) = Len(srcs)
                       /\ \A i \in 1..Len(srcs) :
                              Column(q.out.val, i) =
                                  VecAdd(Map(srcs[i], Column(sol, i)),
                                         VecScale(InvIOmegaOf(srcs[i]),
                                                  MatVec(MeMuI, srcs[i].sE)))
            /\ \A q \in PartQueries :
                   (q.name = "_hSecondaryDeriv_u" /\ ~q.adjoint) =>
                       /\ q.out.kind = "vector"
                       /\ q.out.val = Map(survey.srcList[q.src], q.du)

\* C14 happens: Fields_j returned hSecondary for all sources of a non-zero
\* solution, with the source terms showing in it
HSecondaryReturned ==
    \E q \in SecondaryQueries("h") :
        /\ variant = "Fields_j" /\ Len(q.ind) = NumSrc
        /\ fields # Zeros(NativeDim(variant, mesh), NumSrc)
        /\ IsValue(q.out)
        /\ q.out.val # Fields_j__hSecondary(This, QSolution(q),
                            [k \in 1..Len(q.ind) |-> Silent(SrcsOf(q.ind)[k])]).val

\* C15: in Fields_h, column i of jSecondary is C * hSolution[:, i] - S_e(src_i)
\* and does not depend on the frequency of source i; jSecondaryDeriv_u applies
\* C in forward mode and C^T in adjoint mode; jSecondaryDeriv_m is the negative
\* of the source's electric source-term derivative applied to v, with the
\* adjoint flag forwarded unchanged.
JSecondaryFormula ==
    variant = "Fields_h" =>
        LET C == survey.prob.mesh.edgeCurl
        IN  /\ \A q \in SecondaryQueries("j") :
                   LET sol     == QSolution(q)
                       srcs    == SrcsOf(q.ind)
                       retuned == Fields_h__jSecondary(This, sol,
                                      [k \in 1..Len(srcs) |-> [srcs[k] EXCEPT !.freq = @ + k]])
                   IN  /\ q.out.kind = "matrix"
                       /\ NCols(q.out.val) = Len(srcs)
                       /\ \A i \in 1..Len(srcs) :
                              Column(q.out.val, i) =
                                  VecSub(MatVec(C, Column(sol, i)), srcs[i].sF)
                       /\ retuned.kind = "matrix" /\ retuned.val = q.out.val
            /\ \A q \in PartQueries :
                   /\ q.name = "_jSecondaryDeriv_u" =>
                          /\ q.out.kind = "vector"
                          /\ q.out.val = MatVec(IF q.adjoint THEN Transpose(C) ELSE C, q.du)
                   /\ q.name = "_jSecondaryDeriv_m" =>
                          LET D == survey.srcList[q.src].dsF
                          IN  IF D = << >> THEN q.out.kind = "Zero"
                              ELSE /\ q.out.kind = "vector"
                                   /\ q.out.val =
                                          VecNeg(MatVec(IF q.adjoint THEN Transpose(D) ELSE D,
                                                        q.du))

\* C15 happens: Fields_h took the adjoint model derivative of jSecondary for a
\* source whose electric source term depends on the model
JSecondaryDerivAsked ==
    \E q \in PartQueries :
        /\ variant = "Fields_h" /\ q.name = "_jSecondaryDeriv_m" /\ q.adjoint
        /\ survey.srcList[q.src].dsF # << >>
        /\ q.out.kind = "vector"
        /\ q.out.val # ZeroVec(Len(q.out.val))

\* C16: in each variant the secondary accessor of the native quantity returns
\* the solution it was handed unchanged for any source list, and the native
\* Deriv_u returns its input vector unchanged for every source, forward and
\* adjoint.
NativeIsIdentity ==
    /\ \A q \in Queries :
           /\ (q.op = "accessor" /\ IsNative(q.quantity)
                   /\ q.name = "_" \o q.quantity \o "Secondary") =>
                  q.out.kind = "matrix" /\ q.out.val = Columns(fields, q.cols)
           /\ (q.op = "get" /\ IsNative(q.quantity)
                   /\ q.name = q.quantity \o "Secondary") =>
                  q.out.kind = "matrix" /\ q.out.val = Columns(fields, q.ind)
    /\ \A q \in PartQueries :
           (IsNative(q.quantity) /\ q.name = "_" \o q.quantity \o "Deriv_u") =>
               q.out.kind = "vector" /\ q.out.val = q.du

\* C16 happens: the native Deriv_u was applied in adjoint mode to a non-zero
\* vector
NativeDerivUApplied ==
    \E q \in PartQueries :
        /\ IsNative(q.quantity) /\ q.name = "_" \o q.quantity \o "Deriv_u"
        /\ q.adjoint
        /\ q.du # ZeroVec(Len(q.du))
        /\ q.out.kind = "vector"

\* the container with every stored column but that of source s set to zero
Alone(s) ==
    [This EXCEPT !.fields = [r \in 1..NRows(fields) |->
                                [c \in 1..NCols(fields) |->
                                    IF c = s THEN fields[r][c] ELSE CZero]]]

\* the model derivatives of a derived secondary field that read the stored
\* solution
BasePointQueries ==
    {k \in 1..Len(hist) :
        hist[k].op = "part" /\ hist[k].name \in {"_eSecondaryDeriv_m", "_hSecondaryDeriv_m"}}

\* C17: in any sequence of eSecondaryDeriv_m calls (Fields_b) or
\* hSecondaryDeriv_m calls (Fields_j), the base field handed to the
\* conductivity (resp. resistivity) derivative map in the call for source s
\* comes from the stored solution column of s and the source terms of s only:
\* the result is the one the formula gives at that base field, and it is the
\* same with every other column erased, whatever was called before.
PerSourceBasePoint ==
    \A k \in BasePointQueries :
        LET q   == hist[k]
            src == survey.srcList[q.src]
            col == Column(fields, q.src)
            C   == survey.prob.mesh.edgeCurl
        IN  /\ q.out = CallDerivAccessor(Alone(q.src), q.name, src, q.du, q.adjoint)
            /\ (variant = "Fields_b" /\ ~q.adjoint) =>
                   LET w  == VecSub(MatVec(Transpose(C), MatVec(survey.prob.MfMui, col)),
                                    MatVec(survey.prob.Me, src.sE))
                       dS == IF src.dsE = << >> THEN ZeroVec(Len(w))
                             ELSE MatVec(survey.prob.MeSigmaI, MatVec(src.dsE, q.du))
                   IN  /\ q.out.kind = "vector"
                       /\ q.out.val =
                              VecSub(MatVec(MatMul(Diag(w), survey.prob.MeSigmaIDeriv), q.du), dS)
            /\ (variant = "Fields_j" /\ ~q.adjoint) =>
                   LET MeMuI == survey.prob.MeMuI
                       rho == MatVec(MeMuI, MatVec(Transpose(C),
                                  MatVec(MatMul(Diag(col), survey.prob.MfRhoDeriv), q.du)))
                       dS  == IF src.dsE = << >> THEN ZeroVec(Len(rho))
                              ELSE MatVec(MeMuI, MatVec(survey.prob.Me, MatVec(src.dsE, q.du)))
                   IN  /\ q.out.kind = "vector"
                       /\ q.out.val = VecAdd(VecScale(CNeg(InvIOmegaOf(src)), rho),
                                             VecScale(InvIOmegaOf(src), dS))

\* C17 happens: Fields_b took the forward model derivative of eSecondary for
\* one source and then for another, whose stored column differs
TwoBasePoints ==
    /\ Len(hist) = 2 /\ variant = "Fields_b"
    /\ BasePointQueries = {1, 2}
    /\ hist[1].src # hist[2].src
    /\ ~hist[1].adjoint /\ ~hist[2].adjoint
    /\ IsValue(hist[1].out) /\ IsValue(hist[2].out)
    /\ Column(fields, hist[1].src) # Column(fields, hist[2].src)

\* the accessors with a frequency factor 1/(i*omega)
FrequencyAccessors ==
    {"_bSecondary", "_bSecondaryDeriv_u", "_bSecondaryDeriv_m",
     "_hSecondary", "_hSecondaryDeriv_u", "_hSecondaryDeriv_m"}

\* the quantity whose secondary field carries the frequency factor
HasFrequencyFactor(X) ==
    \/ variant = "Fields_e" /\ X = "b"
    \/ variant = "Fields_j" /\ X = "h"

\* the queries that hand a zero-frequency source to an accessor with a
\* frequency factor, directly or through the total field or derivative
DegenerateQueries ==
    {q \in Queries :
        /\ HasFrequencyFactor(q.quantity)
        /\ q.name \notin {q.quantity \o "Primary", "_" \o q.quantity \o "Primary"}
        /\ IF q.op \in {"deriv", "part"} THEN survey.srcList[q.src].freq = 0
           ELSE /\ \E k \in 1..Len(q.ind) : survey.srcList[q.ind[k]].freq = 0
                /\ q.op = "accessor" => Len(q.cols) = Len(q.ind)}

DegenerateFrequencyRaises ==
    \A q \in DegenerateQueries : Raised(q.out)

\* C18 happens: Fields_e was asked for bSecondary of a source of frequency 1
\* followed by a source of frequency 0
DegenerateSourceQueried ==
    \E q \in DegenerateQueries :
        /\ variant = "Fields_e" /\ q.op = "accessor" /\ q.name = "_bSecondary"
        /\ Len(q.ind) = NumSrc
        /\ survey.srcList[q.ind[1]].freq # 0
        /\ q.out.kind = "ZeroDivisionError"

\* the parts of the message of an outcome
MessageParts(o) == {o.msg[k] : k \in 1..Len(o.msg)}

\* the accessors of quantity X that query q found missing, by either spelling
MissingAccessors(q) ==
    LET parts == IF q.op = "deriv" THEN {"Deriv_u", "Deriv_m"} ELSE {"Primary", "Secondary"}
    IN  UNION {{"_" \o q.quantity \o p, q.quantity \o p} :
                   p \in {p \in parts : ~HasAttr(This, "_" \o q.quantity \o p)}}

\* C19: the not-implemented error raised for an unsupported quantity names the
\* concrete variant it was raised on and the accessor that is missing (the
\* primary or the secondary one, resp. the _u or the _m derivative).
NotImplementedNamesVariantAndAccessor ==
    \A q \in Queries :
        q.out.kind = "NotImplementedError" =>
            /\ variant \in MessageParts(q.out)
            /\ MessageParts(q.out) \cap MissingAccessors(q) # {}

\* C19, what the message does carry: the quantity asked for (with "Derivs"
\* appended for a derivative) and the name of the stored solution field
NotImplementedNamesQuantity ==
    \A q \in Queries :
        q.out.kind = "NotImplementedError" =>
            q.out.msg = << "Getting ",
                           IF q.op = "deriv" THEN q.quantity \o "Derivs" ELSE q.quantity,
                           " from ", KnownKey(This), " is not implemented" >>

\* C19 happens: _h was called on Fields_e, which has neither _hPrimary nor
\* _hSecondary
NotImplementedRaised ==
    \E q \in Queries :
        /\ variant = "Fields_e" /\ q.op = "call" /\ q.name = "_h"
        /\ q.out.kind = "NotImplementedError"
        /\ MissingAccessors(q) = {"_hPrimary", "hPrimary", "_hSecondary", "hSecondary"}

\* C20: in Fields_b, forward eSecondaryDeriv_m is the model derivative of
\* eSecondary: the base field w at which MeSigmaIDeriv is evaluated is the
\* vector MeSigmaI multiplies in eSecondary for the same source (eSecondary
\* column = MeSigmaI * w), whatever the source-integration operator Me.
DerivBaseMatchesField ==
    \A q \in PartQueries :
        (variant = "Fields_b" /\ q.name = "_eSecondaryDeriv_m" /\ ~q.adjoint) =>
            LET src == survey.srcList[q.src]
                w   == Fields_b__eSecondaryDeriv_m_w(This, src, FALSE)
                e   == Fields_b__eSecondary(This, StoredColumn(This, src), << src >>)
            IN  /\ e.kind = "matrix"
                /\ e.val = MatMul(survey.prob.MeSigmaI, w)

\* C20 happens: Fields_b took the forward model derivative of eSecondary on a
\* problem whose Me is not the identity
DerivBaseUsed ==
    \E q \in PartQueries :
        /\ variant = "Fields_b" /\ q.name = "_eSecondaryDeriv_m" /\ ~q.adjoint
        /\ IsValue(q.out)
        /\ survey.prob.Me # Diag([r \in 1..NRows(survey.prob.Me) |-> COne])

\* C21: in Fields_j, forward hSecondaryDeriv_m is the model derivative of
\* hSecondary: its resistivity part is
\* -(1/(i*omega)) * MeMuI * C^T * (MfRhoDeriv(jSolution of src) * v) and its
\* source part is (1/(i*omega)) * MeMuI * (dS_m/dm * v), the derivative of the
\* source term of hSecondary with no extra operator applied, whatever Me.
HDerivMatchesField ==
    \A q \in PartQueries :
        (variant = "Fields_j" /\ q.name = "_hSecondaryDeriv_m" /\ ~q.adjoint) =>
            LET src   == survey.srcList[q.src]
                col   == Column(fields, q.src)
                C     == survey.prob.mesh.edgeCurl
                MeMuI == survey.prob.MeMuI
                rho   == MatVec(MeMuI, MatVec(Transpose(C),
                             MatVec(MatMul(Diag(col), survey.prob.MfRhoDeriv), q.du)))
                dS    == IF src.dsE = << >> THEN ZeroVec(Len(rho))
                         ELSE MatVec(MeMuI, MatVec(src.dsE, q.du))
            IN  /\ q.out.kind = "vector"
                /\ q.out.val = VecAdd(VecScale(CNeg(InvIOmegaOf(src)), rho),
                                      VecScale(InvIOmegaOf(src), dS))

\* C21 happens: Fields_j took the forward model derivative of hSecondary for a
\* source whose magnetic source term depends on the model, on a problem whose
\* Me is not the identity
HDerivUsed ==
    \E q \in PartQueries :
        /\ variant = "Fields_j" /\ q.name = "_hSecondaryDeriv_m" /\ ~q.adjoint
        /\ survey.srcList[q.src].dsE # << >>
        /\ IsValue(q.out)
        /\ survey.prob.Me # Diag([r \in 1..NRows(survey.prob.Me) |-> COne])

\* the number of rows the location tag of an alias entry stands for: 'E' the
\* edges (columns of the curl operator), 'F' the faces (its rows)
TagRows(tag) ==
    IF tag = "E" THEN NCols(survey.prob.mesh.edgeCurl)
    ELSE NRows(survey.prob.mesh.edgeCurl)

\* the alias entry that names accessor func
EntryOf(func) ==
    CHOOSE entry \in {aliasFields(variant)[n] : n \in DOMAIN aliasFields(variant)} :
        entry[3] = func

\* C22: each variant declares exactly one known field; every alias entry
\* names that stored field as its source and an accessor the variant has; and
\* the array the accessor returns has nE rows when the entry's tag is 'E' and
\* nF rows when it is 'F', with one column per solution column.
AliasTableConsistent ==
    /\ Cardinality(DOMAIN knownFields(variant)) = 1
    /\ \A name \in DOMAIN aliasFields(variant) :
           LET entry == aliasFields(variant)[name]
           IN  /\ entry[1] \in DOMAIN knownFields(variant)
               /\ entry[2] \in {"E", "F"}
               /\ HasAttr(This, entry[3])
    /\ \A q \in Queries :
           /\ (q.op = "get" /\ q.name \in DOMAIN aliasFields(variant)) =>
                  /\ q.out.kind = "matrix"
                  /\ NRows(q.out.val) = TagRows(aliasFields(variant)[q.name][2])
                  /\ NCols(q.out.val) = Len(q.ind)
           /\ (q.op = "accessor" /\ IsValue(q.out)) =>
                  /\ NRows(q.out.val) = TagRows(EntryOf(q.name)[2])
                  /\ NCols(q.out.val) = Len(q.cols)

\* C22 happens: Fields_j returned hPrimary, an edge field, from a solution
\* that lives on faces, on a mesh with different numbers of edges and faces
EdgeFieldFromFaceSolution ==
    \E q \in Queries :
        /\ variant = "Fields_j" /\ q.op = "get" /\ q.name = "hPrimary"
        /\ Len(q.ind) = NumSrc
        /\ q.out.kind = "matrix"
        /\ NRows(q.out.val) # NRows(fields)
====
